---- MODULE Spec2Model ----
(***************************************************************************)
(* Model of the static test-case generator of js-validator:               *)
(* src/testcaseGenerator/jsParser.js (class JSParser) and its driver      *)
(* src/testcaseGenerator/index.js.                                        *)
(*                                                                         *)
(* JavaScript strings are sequences of one-character strings, so that      *)
(* concatenation, number formatting, number parsing and substring search   *)
(* are computed and not assumed.  JavaScript numbers are exact rationals   *)
(* n/d (d >= 1, lowest terms) plus NaN and the two infinities; negative    *)
(* zero and binary rounding are not represented.                           *)
(***************************************************************************)
EXTENDS Integers, Sequences, FiniteSets, TLC

(***************************************************************************)
(* Characters                                                              *)
(***************************************************************************)
Ascii ==
  <<" ", "!", "<dquote>", "#", "$", "%", "&", "'", "(", ")", "*", "+", ",", "-", ".", "/",
    "0", "1", "2", "3", "4", "5", "6", "7", "8", "9", ":", ";", "<", "=", ">", "?",
    "@", "A", "B", "C", "D", "E", "F", "G", "H", "I", "J", "K", "L", "M", "N", "O",
    "P", "Q", "R", "S", "T", "U", "V", "W", "X", "Y", "Z", "[", "<bslash>", "]", "^", "_",
    "<bquote>", "a", "b", "c", "d", "e", "f", "g", "h", "i", "j", "k", "l", "m", "n", "o",
    "p", "q", "r", "s", "t", "u", "v", "w", "x", "y", "z", "{", "|", "}", "~">>

Digits == <<"0", "1", "2", "3", "4", "5", "6", "7", "8", "9">>

IndexIn(seq, c) == CHOOSE i \in 1..Len(seq) : seq[i] = c

\* Ascii[i] is the character with code 31 + i; the double quote, the backslash
\* and the back quote are written as place holders.
CharCode(c) == 31 + IndexIn(Ascii, c)

IsDigit(c) == c \in {"0", "1", "2", "3", "4", "5", "6", "7", "8", "9"}

DigitChar(k) == Digits[k + 1]

DigitVal(c) == IndexIn(Digits, c) - 1

IsLetterCode(n) == (n >= 65 /\ n <= 90) \/ (n >= 97 /\ n <= 122)

\* \w of a regular expression
IsWordChar(c) == IsDigit(c) \/ c = "_" \/ IsLetterCode(CharCode(c))

IsSpace(c) == c = " "

(***************************************************************************)
(* String helpers (String.prototype.includes / startsWith / trim)          *)
(***************************************************************************)
StartsWithAt(s, i, pat) ==
  /\ i + Len(pat) - 1 <= Len(s)
  /\ \A k \in 1..Len(pat) : s[i + k - 1] = pat[k]

Includes(s, pat) == \E i \in 1..(Len(s) + 1) : StartsWithAt(s, i, pat)

RECURSIVE TrimLeft(_)
TrimLeft(s) == IF s # <<>> /\ IsSpace(Head(s)) THEN TrimLeft(Tail(s)) ELSE s

RECURSIVE TrimRight(_)
TrimRight(s) ==
  IF s # <<>> /\ IsSpace(s[Len(s)]) THEN TrimRight(SubSeq(s, 1, Len(s) - 1)) ELSE s

Trim(s) == TrimRight(TrimLeft(s))

RECURSIVE JoinChars(_, _)
JoinChars(parts, sep) ==
  IF parts = <<>> THEN <<>>
  ELSE IF Len(parts) = 1 THEN parts[1]
  ELSE parts[1] \o sep \o JoinChars(Tail(parts), sep)

(***************************************************************************)
(* Values of the analysed program as the analyser holds them               *)
(***************************************************************************)
Abs(n) == IF n < 0 THEN -n ELSE n

RECURSIVE Gcd(_, _)
Gcd(a, b) == IF b = 0 THEN a ELSE Gcd(b, a % b)

Rat(n, d) ==
  LET g == Gcd(Abs(n), Abs(d))
      sgn == IF d < 0 THEN -1 ELSE 1
  IN  [t |-> "num", n |-> sgn * (n \div g), d |-> sgn * (d \div g)]

Num(n) == [t |-> "num", n |-> n, d |-> 1]
NaN == [t |-> "nan"]
Inf(neg) == [t |-> "inf", neg |-> neg]
Str(s) == [t |-> "str", s |-> s]
Bool(b) == [t |-> "bool", b |-> b]
Null == [t |-> "null"]
Undef == [t |-> "undef"]
Arr(e) == [t |-> "arr", e |-> e]
Obj(p) == [t |-> "obj", p |-> p]
NodeVal(node) == [t |-> "node", node |-> node]

\* The outcome of an evaluation that raised a TypeError instead of returning.
Throw == [t |-> "throw"]

IsNumber(v) == v.t \in {"num", "nan", "inf"}
IsString(v) == v.t = "str"
IsObjectLike(v) == v.t \in {"arr", "obj", "node"}

\* typeof v
TypeOf(v) ==
  CASE IsNumber(v) -> "number"
    [] v.t = "str" -> "string"
    [] v.t = "bool" -> "boolean"
    [] v.t = "undef" -> "undefined"
    [] v.t \in {"null", "arr", "obj", "node"} -> "object"

\* ToBoolean(v)
Truthy(v) ==
  CASE v.t = "num" -> v.n # 0
    [] v.t = "nan" -> FALSE
    [] v.t = "inf" -> TRUE
    [] v.t = "str" -> v.s # <<>>
    [] v.t = "bool" -> v.b
    [] v.t \in {"null", "undef"} -> FALSE
    [] v.t \in {"arr", "obj", "node"} -> TRUE

\* Insertion-ordered key/value lists: the own properties of an object value,
\* and the entries of a Map.
HasKey(p, k) == \E i \in 1..Len(p) : p[i].key = k

KeyIndex(p, k) == CHOOSE i \in 1..Len(p) : p[i].key = k

GetKey(p, k) == IF HasKey(p, k) THEN p[KeyIndex(p, k)].val ELSE Undef

\* a write that moves the key to the end of the list
SetKeyLast(p, k, v) ==
  Append(SelectSeq(p, LAMBDA e : e.key # k), [key |-> k, val |-> v])

\* Map.prototype.set: a key the list has keeps its place
SetKey(p, k, v) ==
  IF HasKey(p, k)
  THEN [p EXCEPT ![KeyIndex(p, k)] = [key |-> k, val |-> v]]
  ELSE Append(p, [key |-> k, val |-> v])

Keys(p) == [i \in 1..Len(p) |-> p[i].key]

\* the values of a key/value list, last entry first
ValsReversed(p) == [i \in 1..Len(p) |-> p[Len(p) + 1 - i].val]

Vals(p) == [i \in 1..Len(p) |-> p[i].val]

(***************************************************************************)
(* Number <-> string conversions of the host language                      *)
(***************************************************************************)
RECURSIVE NatDigits(_)
NatDigits(n) ==
  IF n < 10 THEN <<DigitChar(n)>>
  ELSE Append(NatDigits(n \div 10), DigitChar(n % 10))

\* The digits of r/d (0 <= r < d) after the decimal point, at most `fuel` of them.
RECURSIVE FracDigits(_, _, _)
FracDigits(r, d, fuel) ==
  IF r = 0 \/ fuel = 0 THEN <<>>
  ELSE <<DigitChar((r * 10) \div d)>> \o FracDigits((r * 10) % d, d, fuel - 1)

\* Number.prototype.toString for a finite number.
NumToStr(v) ==
  (IF v.n < 0 THEN <<"-">> ELSE <<>>)
    \o NatDigits(Abs(v.n) \div v.d)
    \o (IF v.d = 1 THEN <<>>
        ELSE <<".">> \o FracDigits(Abs(v.n) % v.d, v.d, 16))

s_NaN == <<"N", "a", "N">>
s_Infinity == <<"I", "n", "f", "i", "n", "i", "t", "y">>
s_true == <<"t", "r", "u", "e">>
s_false == <<"f", "a", "l", "s", "e">>
s_null == <<"n", "u", "l", "l">>
s_undefined == <<"u", "n", "d", "e", "f", "i", "n", "e", "d">>
s_objectObject ==
  <<"[", "o", "b", "j", "e", "c", "t", " ", "O", "b", "j", "e", "c", "t", "]">>

\* String(v): the characters of v converted to a string.
RECURSIVE ToStr(_)
ToStr(v) ==
  CASE v.t = "num" -> NumToStr(v)
    [] v.t = "nan" -> s_NaN
    [] v.t = "inf" -> IF v.neg THEN <<"-">> \o s_Infinity ELSE s_Infinity
    [] v.t = "str" -> v.s
    [] v.t = "bool" -> IF v.b THEN s_true ELSE s_false
    [] v.t = "null" -> s_null
    [] v.t = "undef" -> s_undefined
    [] v.t = "arr" ->
         \* Array.prototype.join(","): null and undefined elements print empty
         JoinChars([i \in 1..Len(v.e) |->
                      IF v.e[i].t \in {"null", "undef"} THEN <<>> ELSE ToStr(v.e[i])],
                   <<",">>)
    [] v.t \in {"obj", "node"} -> s_objectObject

IsDigits(s) == s # <<>> /\ \A i \in 1..Len(s) : IsDigit(s[i])

RECURSIVE DigitsVal(_)
DigitsVal(s) ==
  IF s = <<>> THEN 0
  ELSE DigitsVal(SubSeq(s, 1, Len(s) - 1)) * 10 + DigitVal(s[Len(s)])

RECURSIVE Pow10(_)
Pow10(k) == IF k = 0 THEN 1 ELSE 10 * Pow10(k - 1)

\* u without its decimal point, when it has exactly one and a digit besides
WithoutPoint(u, i) == SubSeq(u, 1, i - 1) \o SubSeq(u, i + 1, Len(u))

\* An unsigned decimal literal: digits, optionally with one decimal point.
\* (Hexadecimal, binary, octal and exponent forms are not represented.)
UnsignedToNumber(u) ==
  IF u = s_Infinity THEN Inf(FALSE)
  ELSE IF \E i \in 1..Len(u) : u[i] = "." /\ IsDigits(WithoutPoint(u, i))
  THEN Rat(DigitsVal(WithoutPoint(u, IndexIn(u, "."))), Pow10(Len(u) - IndexIn(u, ".")))
  ELSE IF IsDigits(u) THEN Num(DigitsVal(u))
  ELSE NaN

NumNeg(a) ==
  CASE a.t = "num" -> Rat(-a.n, a.d)
    [] a.t = "nan" -> NaN
    [] a.t = "inf" -> Inf(~a.neg)

Signed(negative, a) == IF negative THEN NumNeg(a) ELSE a

\* StringToNumber of a trimmed string
TrimmedToNumber(u) ==
  IF u = <<>> THEN Num(0)
  ELSE Signed(Head(u) = "-",
              UnsignedToNumber(IF Head(u) \in {"-", "+"} THEN Tail(u) ELSE u))

\* StringToNumber
StrToNumber(s) == TrimmedToNumber(Trim(s))

\* ToPrimitive: arrays and objects convert through toString
ToPrimitive(v) == IF IsObjectLike(v) THEN Str(ToStr(v)) ELSE v

\* ToNumber of a primitive value
PrimitiveToNumber(p) ==
  CASE IsNumber(p) -> p
    [] p.t = "str" -> StrToNumber(p.s)
    [] p.t = "bool" -> IF p.b THEN Num(1) ELSE Num(0)
    [] p.t = "null" -> Num(0)
    [] p.t = "undef" -> NaN

\* ToNumber
ToNumber(v) == PrimitiveToNumber(ToPrimitive(v))

(***************************************************************************)
(* Arithmetic of the host language on numbers                              *)
(***************************************************************************)
Sign(a) == IF a.t = "inf" THEN (IF a.neg THEN -1 ELSE 1)
           ELSE IF a.n < 0 THEN -1 ELSE IF a.n = 0 THEN 0 ELSE 1

NumAdd(a, b) ==
  CASE a.t = "nan" \/ b.t = "nan" -> NaN
    [] a.t = "inf" /\ b.t = "inf" -> IF a.neg = b.neg THEN a ELSE NaN
    [] a.t = "inf" /\ b.t = "num" -> a
    [] a.t = "num" /\ b.t = "inf" -> b
    [] a.t = "num" /\ b.t = "num" -> Rat(a.n * b.d + b.n * a.d, a.d * b.d)

NumSub(a, b) == NumAdd(a, NumNeg(b))

NumMul(a, b) ==
  CASE a.t = "nan" \/ b.t = "nan" -> NaN
    [] a.t = "num" /\ b.t = "num" -> Rat(a.n * b.n, a.d * b.d)
    [] OTHER -> IF Sign(a) * Sign(b) = 0 THEN NaN ELSE Inf(Sign(a) * Sign(b) < 0)

NumDiv(a, b) ==
  CASE a.t = "nan" \/ b.t = "nan" -> NaN
    [] a.t = "inf" /\ b.t = "inf" -> NaN
    [] a.t = "inf" /\ b.t = "num" -> Inf(a.neg # (b.n < 0))
    [] a.t = "num" /\ b.t = "inf" -> Num(0)
    [] a.t = "num" /\ b.t = "num" ->
         IF b.n = 0
         THEN (IF a.n = 0 THEN NaN ELSE Inf(a.n < 0))
         ELSE Rat(a.n * b.d, a.d * b.n)

\* The % operator: the remainder has the sign of the dividend.
NumMod(a, b) ==
  CASE a.t = "nan" \/ b.t = "nan" -> NaN
    [] a.t = "inf" -> NaN
    [] a.t = "num" /\ b.t = "inf" -> a
    [] a.t = "num" /\ b.t = "num" ->
         IF b.n = 0 THEN NaN
         ELSE LET num == Abs(a.n) * b.d
                  den == a.d * Abs(b.n)
                  q == num \div den
                  r == Rat(num - q * den, a.d * b.d)
              IN  IF a.n < 0 THEN NumNeg(r) ELSE r

\* a < b on numbers; "undef" when either is NaN
NumLess(a, b) ==
  CASE a.t = "nan" \/ b.t = "nan" -> "undef"
    [] a.t = "inf" /\ b.t = "inf" -> IF a.neg /\ ~b.neg THEN "true" ELSE "false"
    [] a.t = "inf" /\ b.t = "num" -> IF a.neg THEN "true" ELSE "false"
    [] a.t = "num" /\ b.t = "inf" -> IF b.neg THEN "false" ELSE "true"
    [] a.t = "num" /\ b.t = "num" -> IF a.n * b.d < b.n * a.d THEN "true" ELSE "false"

RECURSIVE StrLess(_, _)
StrLess(a, b) ==
  IF b = <<>> THEN FALSE
  ELSE IF a = <<>> THEN TRUE
  ELSE IF Head(a) = Head(b) THEN StrLess(Tail(a), Tail(b))
  ELSE CharCode(Head(a)) < CharCode(Head(b))

\* The arithmetic operators on two numbers
NumOp(operator, a, b) ==
  CASE operator = "+" -> NumAdd(a, b)
    [] operator = "-" -> NumSub(a, b)
    [] operator = "*" -> NumMul(a, b)
    [] operator = "/" -> NumDiv(a, b)
    [] operator = "%" -> NumMod(a, b)

\* l < r on primitive values: "true", "false" or "undef"
PrimitiveLess(lp, rp) ==
  IF lp.t = "str" /\ rp.t = "str"
  THEN (IF StrLess(lp.s, rp.s) THEN "true" ELSE "false")
  ELSE NumLess(PrimitiveToNumber(lp), PrimitiveToNumber(rp))

\* Abstract relational comparison l < r: "true", "false" or "undef"
JSLess(l, r) == PrimitiveLess(ToPrimitive(l), ToPrimitive(r))

\* l + r on primitive values
PrimitiveAdd(lp, rp) ==
  IF lp.t = "str" \/ rp.t = "str"
  THEN Str(ToStr(lp) \o ToStr(rp))
  ELSE NumAdd(PrimitiveToNumber(lp), PrimitiveToNumber(rp))

\* l + r
JSAdd(l, r) == PrimitiveAdd(ToPrimitive(l), ToPrimitive(r))

\* l - r, l * r, l / r, l % r
JSArith(operator, l, r) == NumOp(operator, ToNumber(l), ToNumber(r))

\* l === r.  Two arrays or objects are equal only when they are the same
\* object; the model keeps no object identities, so that case is left out.
StrictEq(l, r) ==
  CASE IsNumber(l) /\ IsNumber(r) -> l.t # "nan" /\ l = r
    [] IsNumber(l) # IsNumber(r) -> FALSE
    [] ~IsNumber(l) /\ l.t # r.t -> FALSE
    [] l.t = r.t /\ l.t \in {"str", "bool", "null", "undef"} -> l = r

\* l == r on primitive values
PrimitiveLooseEq(lp, rp) ==
  CASE lp.t \in {"null", "undef"} /\ rp.t \in {"null", "undef"} -> TRUE
    [] (lp.t \in {"null", "undef"}) # (rp.t \in {"null", "undef"}) -> FALSE
    [] OTHER ->
         IF lp.t = "str" /\ rp.t = "str" THEN lp.s = rp.s
         ELSE StrictEq(PrimitiveToNumber(lp), PrimitiveToNumber(rp))

\* l == r.  (Two arrays or objects: see StrictEq.)
LooseEq(l, r) ==
  CASE ~(IsObjectLike(l) /\ IsObjectLike(r)) ->
         PrimitiveLooseEq(IF l.t \in {"null", "undef"} THEN l ELSE ToPrimitive(l),
                          IF r.t \in {"null", "undef"} THEN r ELSE ToPrimitive(r))

(***************************************************************************)
(* Syntax trees as @babel/parser builds them                               *)
(***************************************************************************)
\* An absent child: null in a node list (an array hole), a missing initializer,
\* or a property that the node kind does not have (undefined).
Nil == [nil |-> TRUE]
IsNil(x) == "nil" \in DOMAIN x

Id(name) == [type |-> "Identifier", name |-> name]
NumLit(n) == [type |-> "NumericLiteral", value |-> Num(n)]
StrLit(s) == [type |-> "StringLiteral", value |-> Str(s)]
BoolLit(b) == [type |-> "BooleanLiteral", value |-> Bool(b)]
NullLit == [type |-> "NullLiteral"]
ArrayExpr(elements) == [type |-> "ArrayExpression", elements |-> elements]
ObjectExpr(properties) == [type |-> "ObjectExpression", properties |-> properties]
Prop(key, value) == [type |-> "ObjectProperty", key |-> key, value |-> value]
Spread(argument) == [type |-> "SpreadElement", argument |-> argument]
Unary(operator, argument) ==
  [type |-> "UnaryExpression", operator |-> operator, argument |-> argument]
Binary(operator, left, right) ==
  [type |-> "BinaryExpression", operator |-> operator, left |-> left, right |-> right]
Logical(operator, left, right) ==
  [type |-> "LogicalExpression", operator |-> operator, left |-> left, right |-> right]
Cond(test, consequent, alternate) ==
  [type |-> "ConditionalExpression", test |-> test, consequent |-> consequent,
   alternate |-> alternate]
Member(object, property) ==
  [type |-> "MemberExpression", object |-> object, property |-> property]
Call(callee, arguments) ==
  [type |-> "CallExpression", callee |-> callee, arguments |-> arguments]
Assign(operator, left, right) ==
  [type |-> "AssignmentExpression", operator |-> operator, left |-> left,
   right |-> right]
Declarator(name, init) == [type |-> "VariableDeclarator", id |-> Id(name), init |-> init]
VarDecl(kind, declarations) ==
  [type |-> "VariableDeclaration", kind |-> kind, declarations |-> declarations]
ExprStmt(expression) == [type |-> "ExpressionStatement", expression |-> expression]
Block(body) == [type |-> "BlockStatement", body |-> body]
Break == [type |-> "BreakStatement"]
Continue == [type |-> "ContinueStatement"]
ReturnStmt(argument) == [type |-> "ReturnStatement", argument |-> argument]
If(test, consequent) == [type |-> "IfStatement", test |-> test, consequent |-> consequent]
SwitchCase(test, consequent) ==
  [type |-> "SwitchCase", test |-> test, consequent |-> consequent]
Switch(discriminant, cases) ==
  [type |-> "SwitchStatement", discriminant |-> discriminant, cases |-> cases]
\* for (;;) body
For(body) == [type |-> "ForStatement", body |-> body]
While(test, body) == [type |-> "WhileStatement", test |-> test, body |-> body]
DoWhile(body, test) == [type |-> "DoWhileStatement", body |-> body, test |-> test]
ForOf(left, right, body) ==
  [type |-> "ForOfStatement", left |-> left, right |-> right, body |-> body]
ForIn(left, right, body) ==
  [type |-> "ForInStatement", left |-> left, right |-> right, body |-> body]
FunctionDecl(name, params, body) ==
  [type |-> "FunctionDeclaration", id |-> Id(name), params |-> params, body |-> body]

\* node.f, or undefined when the node has no such property (the `?.` reads)
Field(node, f) == IF ~IsNil(node) /\ f \in DOMAIN node THEN node[f] ELSE Nil

\* node.name; names are never empty, and NoName stands for undefined
NoName == <<>>
NameOf(node) == IF ~IsNil(node) /\ "name" \in DOMAIN node THEN node.name ELSE NoName

\* node.type, or "" for an absent node
KindOf(node) == IF IsNil(node) THEN "" ELSE node.type

\* Names the analyser compares against
n_console == <<"c", "o", "n", "s", "o", "l", "e">>
n_log == <<"l", "o", "g">>
n_Object == <<"O", "b", "j", "e", "c", "t">>
n_keys == <<"k", "e", "y", "s">>
n_values == <<"v", "a", "l", "u", "e", "s">>
n_push == <<"p", "u", "s", "h">>
n_length == <<"l", "e", "n", "g", "t", "h">>
n_add == <<"a", "d", "d">>
n_multiply == <<"m", "u", "l", "t", "i", "p", "l", "y">>
n_var == <<"v", "a", "r">>
n_let == <<"l", "e", "t">>
n_const == <<"c", "o", "n", "s", "t">>
n_typeof == <<"t", "y", "p", "e", "o", "f">>
n_obj == <<"o", "b", "j">>
n_addEventListener ==
  <<"a", "d", "d", "E", "v", "e", "n", "t", "L", "i", "s", "t", "e", "n", "e", "r">>
n_getElementById ==
  <<"g", "e", "t", "E", "l", "e", "m", "e", "n", "t", "B", "y", "I", "d">>
n_querySelector ==
  <<"q", "u", "e", "r", "y", "S", "e", "l", "e", "c", "t", "o", "r">>
n_innerHTML == <<"i", "n", "n", "e", "r", "H", "T", "M", "L">>
n_element == <<"e", "l", "e", "m", "e", "n", "t">>

(***************************************************************************)
(* Source text of a syntax tree.  A program is given as its statements; its *)
(* text, which the analyser also reads line by line, is the statements      *)
(* written out, so that text and tree always agree.                         *)
(***************************************************************************)
OperatorText(op) ==
  CASE op = "typeof" -> n_typeof \o <<" ">>
    [] op = "+" -> <<"+">>
    [] op = "-" -> <<"-">>
    [] op = "*" -> <<"*">>
    [] op = "/" -> <<"/">>
    [] op = "%" -> <<"%">>
    [] op = "!" -> <<"!">>
    [] op = "~" -> <<"~">>
    [] op = "=" -> <<"=">>
    [] op = "+=" -> <<"+", "=">>
    [] op = "-=" -> <<"-", "=">>
    [] op = "*=" -> <<"*", "=">>
    [] op = "/=" -> <<"/", "=">>
    [] op = "%=" -> <<"%", "=">>
    [] op = "**" -> <<"*", "*">>
    [] op = "<" -> <<"<">>
    [] op = ">" -> <<">">>
    [] op = "<=" -> <<"<", "=">>
    [] op = ">=" -> <<">", "=">>
    [] op = "==" -> <<"=", "=">>
    [] op = "!=" -> <<"!", "=">>
    [] op = "===" -> <<"=", "=", "=">>
    [] op = "!==" -> <<"!", "=", "=">>
    [] op = "&&" -> <<"&", "&">>
    [] op = "||" -> <<"|", "|">>
    [] op = "??" -> <<"?", "?">>

RECURSIVE Unparse(_)
Unparse(node) ==
  IF IsNil(node) THEN <<>>
  ELSE
  CASE node.type = "Identifier" -> node.name
    [] node.type = "NumericLiteral" -> NumToStr(node.value)
    [] node.type = "StringLiteral" -> <<"'">> \o node.value.s \o <<"'">>
    [] node.type = "BooleanLiteral" -> ToStr(node.value)
    [] node.type = "NullLiteral" -> s_null
    [] node.type = "ArrayExpression" ->
         <<"[">> \o JoinChars([i \in 1..Len(node.elements) |-> Unparse(node.elements[i])],
                              <<",", " ">>) \o <<"]">>
    [] node.type = "ObjectExpression" ->
         <<"{">> \o JoinChars([i \in 1..Len(node.properties) |-> Unparse(node.properties[i])],
                              <<",", " ">>) \o <<"}">>
    [] node.type = "ObjectProperty" ->
         Unparse(node.key) \o <<":", " ">> \o Unparse(node.value)
    [] node.type = "SpreadElement" -> <<".", ".", ".">> \o Unparse(node.argument)
    [] node.type = "UnaryExpression" ->
         OperatorText(node.operator) \o Unparse(node.argument)
    [] node.type \in {"BinaryExpression", "LogicalExpression", "AssignmentExpression"} ->
         Unparse(node.left) \o <<" ">> \o OperatorText(node.operator) \o <<" ">>
           \o Unparse(node.right)
    [] node.type = "ConditionalExpression" ->
         Unparse(node.test) \o <<" ", "?", " ">> \o Unparse(node.consequent)
           \o <<" ", ":", " ">> \o Unparse(node.alternate)
    [] node.type = "MemberExpression" ->
         Unparse(node.object) \o <<".">> \o Unparse(node.property)
    [] node.type = "CallExpression" ->
         Unparse(node.callee) \o <<"(">>
           \o JoinChars([i \in 1..Len(node.arguments) |-> Unparse(node.arguments[i])],
                        <<",", " ">>) \o <<")">>
    [] node.type = "VariableDeclarator" ->
         IF IsNil(node.init) THEN node.id.name
         ELSE node.id.name \o <<" ", "=", " ">> \o Unparse(node.init)
    [] node.type = "VariableDeclaration" ->
         node.kind \o <<" ">>
           \o JoinChars([i \in 1..Len(node.declarations) |-> Unparse(node.declarations[i])],
                        <<",", " ">>) \o <<";">>
    [] node.type = "ExpressionStatement" -> Unparse(node.expression) \o <<";">>
    [] node.type = "BlockStatement" ->
         <<"{", " ">>
           \o JoinChars([i \in 1..Len(node.body) |-> Unparse(node.body[i])] \o <<<<"}">>>>,
                        <<" ">>)
    [] node.type = "BreakStatement" -> <<"b", "r", "e", "a", "k", ";">>
    [] node.type = "ContinueStatement" -> <<"c", "o", "n", "t", "i", "n", "u", "e", ";">>
    [] node.type = "ReturnStatement" ->
         <<"r", "e", "t", "u", "r", "n", " ">> \o Unparse(node.argument) \o <<";">>
    [] node.type = "IfStatement" ->
         <<"i", "f", " ", "(">> \o Unparse(node.test) \o <<")", " ">>
           \o Unparse(node.consequent)
    [] node.type = "SwitchCase" ->
         <<"c", "a", "s", "e", " ">> \o Unparse(node.test) \o <<":", " ">>
           \o JoinChars([i \in 1..Len(node.consequent) |-> Unparse(node.consequent[i])],
                        <<" ">>)
    [] node.type = "SwitchStatement" ->
         <<"s", "w", "i", "t", "c", "h", " ", "(">> \o Unparse(node.discriminant)
           \o <<")", " ", "{", " ">>
           \o JoinChars([i \in 1..Len(node.cases) |-> Unparse(node.cases[i])] \o <<<<"}">>>>,
                        <<" ">>)
    [] node.type = "ForStatement" ->
         <<"f", "o", "r", " ", "(", ";", ";", ")", " ">> \o Unparse(node.body)
    [] node.type = "WhileStatement" ->
         <<"w", "h", "i", "l", "e", " ", "(">> \o Unparse(node.test) \o <<")", " ">>
           \o Unparse(node.body)
    [] node.type = "DoWhileStatement" ->
         <<"d", "o", " ">> \o Unparse(node.body) \o <<" ", "w", "h", "i", "l", "e", " ", "(">>
           \o Unparse(node.test) \o <<")", ";">>
    [] node.type = "ForOfStatement" ->
         <<"f", "o", "r", " ", "(">> \o Unparse(node.left) \o <<" ", "o", "f", " ">>
           \o Unparse(node.right) \o <<")", " ">> \o Unparse(node.body)
    [] node.type = "ForInStatement" ->
         <<"f", "o", "r", " ", "(">> \o Unparse(node.left) \o <<" ", "i", "n", " ">>
           \o Unparse(node.right) \o <<")", " ">> \o Unparse(node.body)
    [] node.type = "FunctionDeclaration" ->
         <<"f", "u", "n", "c", "t", "i", "o", "n", " ">> \o node.id.name \o <<"(">>
           \o JoinChars([i \in 1..Len(node.params) |-> Unparse(node.params[i])], <<",", " ">>)
           \o <<")", " ">> \o Unparse(node.body)

\* A source file, line by line.  A line holds statements, or is a `//` comment,
\* or is text that is no JavaScript at all.
CodeLine(stmts) == [kind |-> "code", stmts |-> stmts]
CommentLine(text) == [kind |-> "comment", text |-> text]
BrokenLine(text) == [kind |-> "broken", text |-> text]

LineText(l) ==
  IF l.kind = "code"
  THEN JoinChars([i \in 1..Len(l.stmts) |-> Unparse(l.stmts[i])], <<" ">>)
  ELSE l.text

(***************************************************************************)
(* The source lines the analysed files are made of.  A file is a sequence  *)
(* of indices into Lines.                                                  *)
(***************************************************************************)
ConsoleLog(args) == ExprStmt(Call(Member(Id(n_console), Id(n_log)), args))

st_var_x == VarDecl(n_var, <<Declarator(<<"x">>, NumLit(5))>>)
st_let_s == VarDecl(n_let, <<Declarator(<<"s">>, StrLit(<<>>))>>)
st_x_is_2 == ExprStmt(Assign("=", Id(<<"x">>), NumLit(2)))
st_x_incr == ExprStmt(Assign("=", Id(<<"x">>), Binary("+", Id(<<"x">>), NumLit(1))))
st_x_plus_3 == ExprStmt(Assign("+=", Id(<<"x">>), NumLit(3)))
st_s_plus_a == ExprStmt(Assign("+=", Id(<<"s">>), StrLit(<<"a">>)))
st_log_x == ConsoleLog(<<Id(<<"x">>)>>)
st_const_p == VarDecl(n_const, <<Declarator(<<"p">>, ObjectExpr(<<Prop(Id(<<"a">>), NumLit(1))>>))>>)
st_const_k ==
  VarDecl(n_const,
          <<Declarator(<<"k">>, Call(Member(Id(n_Object), Id(n_keys)), <<Id(<<"p">>)>>))>>)
st_const_h == VarDecl(n_const, <<Declarator(<<"h">>, ArrayExpr(<<NumLit(1), Nil, NumLit(2)>>))>>)
st_const_b == VarDecl(n_const, <<Declarator(<<"b">>, ArrayExpr(<<NumLit(1), BoolLit(TRUE)>>))>>)
st_b_push == ExprStmt(Call(Member(Id(<<"b">>), Id(n_push)), <<Id(<<"x">>)>>))
st_let_u == VarDecl(n_let, <<Declarator(<<"u">>, Nil)>>)
\* for (;;) { break; }
st_for_break == For(Block(<<Break>>))
\* while (x) { if (x) { break; } continue; }
st_while_if_break ==
  While(Id(<<"x">>), Block(<<If(Id(<<"x">>), Block(<<Break>>)), Continue>>))
\* do break; while (x);
st_do_break == DoWhile(Break, Id(<<"x">>))
\* for (e of b) { for (j in p) { break; } }
st_for_of_in ==
  ForOf(Id(<<"e">>), Id(<<"b">>),
        Block(<<ForIn(Id(<<"j">>), Id(<<"p">>), Block(<<Break>>))>>))
\* while (x) { switch (x) { case 1: break; } }
st_while_switch ==
  While(Id(<<"x">>), Block(<<Switch(Id(<<"x">>), <<SwitchCase(NumLit(1), <<Break>>)>>)>>))
\* if (x > 3) { }
st_if_x_gt_3 == If(Binary(">", Id(<<"x">>), NumLit(3)), Block(<<>>))
\* x > s ? 1 : 2;
st_x_gt_s == ExprStmt(Cond(Binary(">", Id(<<"x">>), Id(<<"s">>)), NumLit(1), NumLit(2)))
\* btn.addEventListener('click', f);
st_listen ==
  ExprStmt(Call(Member(Id(<<"b", "t", "n">>), Id(n_addEventListener)),
                <<StrLit(<<"c", "l", "i", "c", "k">>), Id(<<"f">>)>>))
\* document.getElementById('out');
st_select ==
  ExprStmt(Call(Member(Id(<<"d", "o", "c", "u", "m", "e", "n", "t">>), Id(n_getElementById)),
                <<StrLit(<<"o", "u", "t">>)>>))
\* function f(a) { return a; }
st_function_f ==
  FunctionDecl(<<"f">>, <<Id(<<"a">>)>>, Block(<<ReturnStmt(Id(<<"a">>))>>))
\* if (x && s) { }
st_if_x_and_s == If(Logical("&&", Id(<<"x">>), Id(<<"s">>)), Block(<<>>))
\* x + 1 ? 1 : 2;
st_x_plus_1_tern == ExprStmt(Cond(Binary("+", Id(<<"x">>), NumLit(1)), NumLit(1), NumLit(2)))
\* if (x) { }
st_if_x == If(Id(<<"x">>), Block(<<>>))
\* b.push([1, , 2]);
st_b_push_holes ==
  ExprStmt(Call(Member(Id(<<"b">>), Id(n_push)), <<ArrayExpr(<<NumLit(1), Nil, NumLit(2)>>)>>))
\* Object.push(x);
st_Object_push == ExprStmt(Call(Member(Id(n_Object), Id(n_push)), <<Id(<<"x">>)>>))
\* x.push(1, 2);
st_x_push == ExprStmt(Call(Member(Id(<<"x">>), Id(n_push)), <<NumLit(1), NumLit(2)>>))
\* b.push(x, 'a');
st_b_push_two == ExprStmt(Call(Member(Id(<<"b">>), Id(n_push)), <<Id(<<"x">>), StrLit(<<"a">>)>>))
\* console.log([1, , 2]);
st_log_holes == ConsoleLog(<<ArrayExpr(<<NumLit(1), Nil, NumLit(2)>>)>>)
\* console.log(b, null, x);
st_log_b_null_x == ConsoleLog(<<Id(<<"b">>), NullLit, Id(<<"x">>)>>)
\* if (x) { console.log(x); }
st_if_log == If(Id(<<"x">>), Block(<<st_log_x>>))
\* b.a = 2;
st_b_a_is_2 == ExprStmt(Assign("=", Member(Id(<<"b">>), Id(<<"a">>)), NumLit(2)))
\* p.a = 2;
st_p_a_is_2 == ExprStmt(Assign("=", Member(Id(<<"p">>), Id(<<"a">>)), NumLit(2)))
\* const t = 42;   const t = 7;
st_const_t_42 == VarDecl(n_const, <<Declarator(<<"t">>, NumLit(42))>>)
st_const_t_7 == VarDecl(n_const, <<Declarator(<<"t">>, NumLit(7))>>)

\* "// const t = 42;"
tx_commented_t ==
  <<"/", "/", " ", "c", "o", "n", "s", "t", " ", "t", " ", "=", " ", "4", "2", ";">>
\* "let = ;"
tx_broken == <<"l", "e", "t", " ", "=", " ", ";">>
\* "// console.log(t); discount"
tx_commented_log ==
  <<"/", "/", " ", "c", "o", "n", "s", "o", "l", "e", ".", "l", "o", "g", "(", "t", ")", ";",
    " ", "d", "i", "s", "c", "o", "u", "n", "t">>
\* "// let y"
tx_commented_y == <<"/", "/", " ", "l", "e", "t", " ", "y">>

Lines ==
  <<CodeLine(<<st_var_x>>), CodeLine(<<st_let_s>>), CodeLine(<<st_x_is_2>>),
    CodeLine(<<st_x_incr>>), CodeLine(<<st_x_plus_3>>), CodeLine(<<st_s_plus_a>>),
    CodeLine(<<st_log_x>>), CodeLine(<<st_const_p>>), CodeLine(<<st_const_k>>),
    CodeLine(<<st_const_h>>), CodeLine(<<st_const_b>>), CodeLine(<<st_b_push>>),
    CodeLine(<<st_log_x, st_var_x>>),
    CommentLine(tx_commented_t), BrokenLine(tx_broken),
    CodeLine(<<st_let_u>>), CodeLine(<<st_var_x, st_x_is_2, st_log_x>>),
    \* 18 to 22: loops
    CodeLine(<<st_for_break>>), CodeLine(<<st_while_if_break>>), CodeLine(<<st_do_break>>),
    CodeLine(<<st_for_of_in>>), CodeLine(<<st_while_switch>>),
    \* 23 to 27: conditions, an event, an element selection, a function
    CodeLine(<<st_if_x_gt_3>>), CodeLine(<<st_x_gt_s>>), CodeLine(<<st_listen>>),
    CodeLine(<<st_select>>), CodeLine(<<st_function_f>>),
    \* 28, 29: comments
    CommentLine(tx_commented_log), CommentLine(tx_commented_y),
    \* 30, 31: what a student makes of line 14
    CodeLine(<<st_const_t_42>>), CodeLine(<<st_const_t_7>>),
    \* 32: an assignment to a property
    CodeLine(<<st_p_a_is_2>>),
    \* 33 to 35: tests that are no comparison
    CodeLine(<<st_if_x_and_s>>), CodeLine(<<st_x_plus_1_tern>>), CodeLine(<<st_if_x>>),
    \* 36: an assignment to a property of b
    CodeLine(<<st_b_a_is_2>>),
    \* 37 to 40: calls of push
    CodeLine(<<st_b_push_holes>>), CodeLine(<<st_Object_push>>), CodeLine(<<st_x_push>>),
    CodeLine(<<st_b_push_two>>),
    \* 41 to 43: calls of console.log
    CodeLine(<<st_log_holes>>), CodeLine(<<st_log_b_null_x>>), CodeLine(<<st_if_log>>)>>

Line(id) == Lines[id]

\* code.split('\n')
SourceLines(src) == [i \in 1..Len(src) |-> LineText(Line(src[i]))]

(***************************************************************************)
(* State: the fields of one JSParser instance, and where its caller is     *)
(***************************************************************************)
VARIABLES
  variables,            \* this.variables
  conditions,           \* this.conditions
  objects,              \* this.objects
  events,               \* this.events
  outputs,              \* this.outputs
  commentedCode,        \* this.commentedCode
  functions,            \* this.functions
  domManipulations,     \* this.domManipulations
  loops,                \* this.loops
  variableValues,       \* this.variableValues: a Map, in insertion order
  variableAssignments,  \* this.variableAssignments
  declaredVariables,    \* this.declaredVariables
  pc,                   \* where the caller of the parser is
  code,                 \* parse's argument: the source file, a sequence of lines
  cursor,               \* how many nodes traverse() has visited so far
  results,              \* what the parse() calls returned to the caller, in order
  calls,                \* number of parse() calls made on the instance so far
  lastCall,             \* the last direct call of resolveExpression and its value
  verdict               \* the validator's last run of a test against a student's file

facts ==
  <<variables, conditions, objects, events, outputs, commentedCode, functions,
    domManipulations, loops>>

fields == <<facts, variableValues, variableAssignments, declaredVariables>>

vars == <<fields, pc, code, cursor, results, calls, lastCall, verdict>>

(***************************************************************************)
(* Hoisting heuristic                                                      *)
(***************************************************************************)
\* line.match(new RegExp(`\\bvar\\s+${varName}\\b`)) finds a match starting at i
VarMatchAt(line, i, varName) ==
  /\ StartsWithAt(line, i, n_var)
  /\ (i = 1 \/ ~IsWordChar(line[i - 1]))
  /\ \E k \in 1..Len(line) :
       /\ \A j \in 1..k : i + 2 + j <= Len(line) /\ IsSpace(line[i + 2 + j])
       /\ StartsWithAt(line, i + 3 + k, varName)
       /\ LET after == i + 3 + k + Len(varName)
          IN  after > Len(line) \/ ~IsWordChar(line[after])

VarMatch(line, varName) == \E i \in 1..Len(line) : VarMatchAt(line, i, varName)

\* lines[i] for i = currentLine .. lines.length - 1 are, counted from 1, the
\* lines currentLine + 1 .. lines.length
isVariableHoistedInCode(varName, currentLine, lines) ==
  \E i \in currentLine..(Len(lines) - 1) : VarMatch(lines[i + 1], varName)

(***************************************************************************)
(* Expression resolver                                                     *)
(***************************************************************************)
AnyThrow(vals) == \E i \in 1..Len(vals) : vals[i] = Throw

\* prop.key.name: the key under which an object literal's property is stored.
\* A key that is no identifier has no name: the property lands under "undefined".
PropKeyName(prop) ==
  IF NameOf(Field(prop, "key")) = NoName THEN s_undefined ELSE prop.key.name

RECURSIVE BuildObject(_, _)
BuildObject(keys, vals) ==
  IF keys = <<>> THEN <<>>
  ELSE SetKey(BuildObject(SubSeq(keys, 1, Len(keys) - 1), SubSeq(vals, 1, Len(vals) - 1)),
              keys[Len(keys)], vals[Len(vals)])

resolveTypeof(argument) ==
  CASE TypeOf(argument) = "number" -> Str(<<"n", "u", "m", "b", "e", "r">>)
    [] TypeOf(argument) = "string" -> Str(<<"s", "t", "r", "i", "n", "g">>)
    [] TypeOf(argument) = "boolean" -> Str(<<"b", "o", "o", "l", "e", "a", "n">>)
    [] argument = Null -> Str(<<"o", "b", "j", "e", "c", "t">>)
    [] argument = Undef -> Str(s_undefined)
    [] OTHER -> Str(<<"o", "b", "j", "e", "c", "t">>)

\* A + that always adds numbers
NumericPlus(left, right) == JSArith("+", left, right)

resolveBinaryPlus(left, right) ==
  IF TypeOf(left) = "string" \/ TypeOf(right) = "string"
  THEN Str(ToStr(left) \o ToStr(right))
  ELSE JSAdd(left, right)

\* left >= right, left <= right, left > right, left < right
resolveRelational(operator, left, right) ==
  JSLess(IF operator \in {"<=", ">"} THEN right ELSE left,
         IF operator \in {"<=", ">"} THEN left ELSE right)
    = (IF operator \in {">=", "<="} THEN "false" ELSE "true")

resolveBinary(operator, left, right) ==
  CASE operator = "+" -> resolveBinaryPlus(left, right)
    [] operator \in {"-", "*", "/", "%"} -> JSArith(operator, left, right)
    [] operator \in {">=", "<=", ">", "<"} -> Bool(resolveRelational(operator, left, right))
    [] operator \in {"==", "!="} -> Bool(LooseEq(left, right) = (operator = "=="))
    [] operator \in {"===", "!=="} -> Bool(StrictEq(left, right) = (operator = "==="))
    [] operator = "&&" -> IF Truthy(left) THEN right ELSE left
    [] operator = "||" -> IF Truthy(left) THEN left ELSE right
    [] operator = "!" -> Bool(~Truthy(right))
    [] OTHER -> Null

resolveIdentifier(varName, currentLine, lines, table) ==
  IF isVariableHoistedInCode(varName, currentLine, lines)
  THEN Str(<<>>)
  ELSE LET value == GetKey(table, varName)
       IN  IF value # Undef THEN value ELSE Str(varName)

\* (A raw syntax-tree node held as a value is an object too; reading a property
\* of one, and the properties an object inherits, are not represented.)
resolveMember(object, property) ==
  IF TypeOf(object) = "string" /\ property = Str(n_length) THEN Num(Len(object.s))
  ELSE IF object.t = "arr" /\ property = Str(n_length) THEN Num(Len(object.e))
  ELSE CASE object.t = "obj" -> GetKey(object.p, ToStr(property))
         [] object.t \notin {"obj", "node"} ->
              Str(ToStr(object) \o <<".">> \o ToStr(property))

resolveCall(callee, args) ==
  LET onObject == NameOf(Field(callee, "object")) = n_Object
                    /\ NameOf(Field(callee, "property")) # NoName
      obj == IF args = <<>> THEN Undef ELSE args[1]
  IN  IF onObject /\ obj.t = "obj" /\ callee.property.name = n_keys
      THEN Arr([i \in 1..Len(obj.p) |-> Str(obj.p[i].key)])
      ELSE IF onObject /\ obj.t = "obj" /\ callee.property.name = n_values
      THEN Arr(Vals(obj.p))
      ELSE IF callee.type = "Identifier"
      THEN (IF callee.name = n_add /\ Len(args) = 2
                 /\ TypeOf(args[1]) = "number" /\ TypeOf(args[2]) = "number"
            THEN NumAdd(args[1], args[2])
            ELSE IF callee.name = n_multiply /\ Len(args) = 2
                 /\ TypeOf(args[1]) = "number" /\ TypeOf(args[2]) = "number"
            THEN NumMul(args[1], args[2])
            ELSE Str(callee.name))
      ELSE Null

\* resolveExpression against a given Binding Table; Throw when the JavaScript
\* raises a TypeError instead of returning.
RECURSIVE resolveIn(_, _, _, _)
resolveIn(expr, currentLine, lines, table) ==
  IF IsNil(expr) THEN Null
  ELSE
  CASE expr.type = "Identifier" ->
         resolveIdentifier(expr.name, currentLine, lines, table)
    [] expr.type \in {"NumericLiteral", "StringLiteral", "BooleanLiteral"} -> expr.value
    [] expr.type = "NullLiteral" -> Null
    [] expr.type = "ArrayExpression" ->
         \* el.type on a hole (null) raises
         IF \E i \in 1..Len(expr.elements) : IsNil(expr.elements[i]) THEN Throw
         ELSE LET elements ==
                    [i \in 1..Len(expr.elements) |->
                       LET el == expr.elements[i]
                       IN  IF el.type \in {"StringLiteral", "NumericLiteral"} THEN el.value
                           ELSE resolveIn(el, currentLine, lines, table)]
              IN  IF AnyThrow(elements) THEN Throw ELSE Arr(elements)
    [] expr.type = "ObjectExpression" ->
         \* prop.key.name on a property without key (a spread) raises
         IF \E i \in 1..Len(expr.properties) : IsNil(Field(expr.properties[i], "key"))
         THEN Throw
         ELSE LET keys == [i \in 1..Len(expr.properties) |-> PropKeyName(expr.properties[i])]
                  vals == [i \in 1..Len(expr.properties) |->
                             resolveIn(Field(expr.properties[i], "value"), currentLine,
                                       lines, table)]
              IN  IF AnyThrow(vals) THEN Throw ELSE Obj(BuildObject(keys, vals))
    [] expr.type = "UnaryExpression" ->
         LET argument == resolveIn(expr.argument, currentLine, lines, table)
         IN  IF argument = Throw THEN Throw
             ELSE IF expr.operator = "typeof" THEN resolveTypeof(argument)
             ELSE IF expr.operator = "!" THEN Bool(~Truthy(argument))
             ELSE IF expr.operator \in {"-", "+"}
             THEN Signed(expr.operator = "-", ToNumber(argument))
             ELSE Null
    [] expr.type = "LogicalExpression" ->
         LET left == resolveIn(expr.left, currentLine, lines, table)
             right == resolveIn(expr.right, currentLine, lines, table)
         IN  IF left = Throw \/ right = Throw THEN Throw
             ELSE IF expr.operator = "&&" THEN (IF Truthy(left) THEN right ELSE left)
             ELSE IF expr.operator = "||" THEN (IF Truthy(left) THEN left ELSE right)
             ELSE Null
    [] expr.type = "ParenthesizedExpression" ->
         resolveIn(expr.expression, currentLine, lines, table)
    [] expr.type = "ConditionalExpression" ->
         LET test == resolveIn(expr.test, currentLine, lines, table)
             consequent == resolveIn(expr.consequent, currentLine, lines, table)
             alternate == resolveIn(expr.alternate, currentLine, lines, table)
         IN  IF test = Throw \/ consequent = Throw \/ alternate = Throw THEN Throw
             ELSE IF Truthy(test) THEN consequent ELSE alternate
    [] expr.type = "BinaryExpression" ->
         LET left == resolveIn(expr.left, currentLine, lines, table)
             right == resolveIn(expr.right, currentLine, lines, table)
         IN  IF left = Throw \/ right = Throw THEN Throw
             ELSE resolveBinary(expr.operator, left, right)
    [] expr.type = "MemberExpression" ->
         LET object == resolveIn(expr.object, currentLine, lines, table)
             property == resolveIn(expr.property, currentLine, lines, table)
         IN  IF object = Throw \/ property = Throw THEN Throw
             ELSE resolveMember(object, property)
    [] expr.type = "CallExpression" ->
         LET args == [i \in 1..Len(expr.arguments) |->
                        resolveIn(expr.arguments[i], currentLine, lines, table)]
         IN  IF AnyThrow(args) THEN Throw ELSE resolveCall(expr.callee, args)
    [] OTHER -> Null

\* this.resolveExpression(expr, currentLine, code)
resolveExpression(expr, currentLine, src) ==
  resolveIn(expr, currentLine, SourceLines(src), variableValues)

(***************************************************************************)
(* traverse(): the nodes that have a visitor, in the order they are entered *)
(***************************************************************************)
LoopTypes ==
  {"ForStatement", "WhileStatement", "ForOfStatement", "ForInStatement", "DoWhileStatement"}

VisitorTypes ==
  {"VariableDeclarator", "AssignmentExpression", "ConditionalExpression", "IfStatement",
   "CallExpression", "FunctionDeclaration"} \cup LoopTypes

\* The children of a node in the order traverse() enters them.
Children(node) ==
  CASE node.type = "VariableDeclaration" -> node.declarations
    [] node.type = "VariableDeclarator" -> <<node.id, node.init>>
    [] node.type = "ExpressionStatement" -> <<node.expression>>
    [] node.type \in {"AssignmentExpression", "BinaryExpression", "LogicalExpression"} ->
         <<node.left, node.right>>
    [] node.type = "UnaryExpression" -> <<node.argument>>
    [] node.type = "SpreadElement" -> <<node.argument>>
    [] node.type = "ConditionalExpression" ->
         <<node.test, node.consequent, node.alternate>>
    [] node.type = "MemberExpression" -> <<node.object, node.property>>
    [] node.type = "CallExpression" -> <<node.callee>> \o node.arguments
    [] node.type = "ArrayExpression" -> node.elements
    [] node.type = "ObjectExpression" -> node.properties
    [] node.type = "ObjectProperty" -> <<node.key, node.value>>
    [] node.type = "BlockStatement" -> node.body
    [] node.type = "ReturnStatement" -> <<node.argument>>
    [] node.type = "IfStatement" -> <<node.test, node.consequent>>
    [] node.type = "SwitchStatement" -> <<node.discriminant>> \o node.cases
    [] node.type = "SwitchCase" -> <<node.test>> \o node.consequent
    [] node.type = "ForStatement" -> <<node.body>>
    [] node.type = "WhileStatement" -> <<node.test, node.body>>
    [] node.type = "DoWhileStatement" -> <<node.body, node.test>>
    [] node.type \in {"ForOfStatement", "ForInStatement"} ->
         <<node.left, node.right, node.body>>
    [] node.type = "FunctionDeclaration" -> <<node.id>> \o node.params \o <<node.body>>
    [] OTHER -> <<>>

RECURSIVE Visits(_, _)
RECURSIVE VisitsOfAll(_, _)
Visits(node, line) ==
  IF IsNil(node) THEN <<>>
  ELSE (IF node.type \in VisitorTypes THEN <<[node |-> node, line |-> line]>> ELSE <<>>)
         \o VisitsOfAll(Children(node), line)

VisitsOfAll(nodes, line) ==
  IF nodes = <<>> THEN <<>>
  ELSE Visits(Head(nodes), line) \o VisitsOfAll(Tail(nodes), line)

\* The visits of one line of a source file
VisitsOfLine(l, i) == IF l.kind = "code" THEN VisitsOfAll(l.stmts, i) ELSE <<>>

\* The visits of a whole source file; every node of line i has loc.start.line = i.
RECURSIVE VisitsOfLines(_, _)
VisitsOfLines(src, i) ==
  IF i > Len(src) THEN <<>>
  ELSE VisitsOfLine(Line(src[i]), i) \o VisitsOfLines(src, i + 1)

\* parser.parse(code) raises a SyntaxError
SyntaxError(src) == \E i \in 1..Len(src) : Line(src[i]).kind = "broken"

(***************************************************************************)
(* Comment scanner                                                         *)
(***************************************************************************)
s_comment == <<"/", "/">>
s_const_ == <<"c", "o", "n", "s", "t", " ">>
s_let_ == <<"l", "e", "t", " ">>
s_var_ == <<"v", "a", "r", " ">>
s_consolelog == <<"c", "o", "n", "s", "o", "l", "e", ".", "l", "o", "g">>
s_FinalBill == <<"F", "i", "n", "a", "l", " ", "B", "i", "l", "l">>
s_discount == <<"d", "i", "s", "c", "o", "u", "n", "t">>

\* The entries one line adds to this.commentedCode
CommentsOfLine(text, lineNo) ==
  LET line == Trim(text)
      commentContent == Trim(SubSeq(line, 3, Len(line)))
      entry(type) == <<[type |-> type, line |-> lineNo, content |-> commentContent]>>
  IN  IF ~StartsWithAt(line, 1, s_comment) THEN <<>>
      ELSE (IF Includes(commentContent, s_const_) \/ Includes(commentContent, s_let_)
                 \/ Includes(commentContent, s_var_)
            THEN entry("variable") ELSE <<>>)
        \o (IF Includes(commentContent, s_consolelog) THEN entry("output") ELSE <<>>)
        \o (IF Includes(commentContent, s_FinalBill) \/ Includes(commentContent, s_discount)
            THEN entry("explanation") ELSE <<>>)

RECURSIVE parseCommentsFrom(_, _)
parseCommentsFrom(lines, i) ==
  IF i > Len(lines) THEN <<>>
  ELSE CommentsOfLine(lines[i], i) \o parseCommentsFrom(lines, i + 1)

\* what parseComments(code) pushes onto this.commentedCode
parseComments(lines) == parseCommentsFrom(lines, 1)

(***************************************************************************)
(* The parser instance                                                     *)
(***************************************************************************)
NoCall == [none |-> TRUE]
NoVerdict == [none |-> TRUE]

\* constructor()
Init ==
  /\ variables = <<>>
  /\ conditions = <<>>
  /\ objects = <<>>
  /\ events = <<>>
  /\ outputs = <<>>
  /\ commentedCode = <<>>
  /\ functions = <<>>
  /\ domManipulations = <<>>
  /\ loops = <<>>
  /\ variableValues = <<>>
  /\ variableAssignments = <<>>
  /\ declaredVariables = {}
  /\ pc = "new"
  /\ code = <<>>
  /\ cursor = 0
  /\ results = <<>>
  /\ calls = 0
  /\ lastCall = NoCall
  /\ verdict = NoVerdict

\* parse(code) up to the start of the tree walk: the comment scan runs first,
\* then the syntax-tree producer, which raises on text that is no JavaScript.
parse(src) ==
  /\ code' = src
  /\ commentedCode' = commentedCode \o parseComments(SourceLines(src))
  /\ calls' = calls + 1
  /\ cursor' = 0
  /\ pc' = IF SyntaxError(src) THEN "threw" ELSE "walking"
  /\ UNCHANGED <<variables, conditions, objects, events, outputs, functions,
                 domManipulations, loops, variableValues, variableAssignments,
                 declaredVariables, results, lastCall, verdict>>

\* An exception leaves the visitor, traverse() and parse(); what the visitor
\* had written before stays written.
Raise == pc' = "threw" /\ cursor' = cursor

Advance == pc' = pc /\ cursor' = cursor + 1

\* the nodes traverse() visits, in order
Todo == VisitsOfLines(code, 1)

\* traverse() enters a node of the given type next
NextIs(todo, type) == cursor < Len(todo) /\ todo[cursor + 1].node.type = type

Visiting(type) == pc = "walking" /\ NextIs(Todo, type)

\* the node traverse() enters next, with its line
Current == Todo[cursor + 1]

(***************************************************************************)
(* VariableDeclarator visitor                                              *)
(***************************************************************************)
\* What the declaration visitor stores for an array literal: string and number
\* elements by value, every other element as its syntax-tree node.
DeclaredArray(valueNode) ==
  Arr([i \in 1..Len(valueNode.elements) |->
         LET el == valueNode.elements[i]
         IN  IF el.type \in {"StringLiteral", "NumericLiteral"} THEN el.value
             ELSE NodeVal(el)])

\* The Binding Table after the declaration visitor has handled `name = valueNode`
\* (valueNode present, `value` its resolved value).
DeclareIn(table, name, valueNode, value) ==
  LET t1 == IF valueNode.type \in {"NumericLiteral", "StringLiteral", "BooleanLiteral"}
            THEN SetKey(table, name, valueNode.value) ELSE table
      t2 == IF valueNode.type = "NullLiteral" THEN SetKey(t1, name, Null) ELSE t1
      t3 == IF valueNode.type = "ArrayExpression"
            THEN SetKey(t2, name, DeclaredArray(valueNode)) ELSE t2
      t4 == IF valueNode.type = "ObjectExpression" THEN SetKey(t3, name, value) ELSE t3
  IN  IF valueNode.type \notin {"NumericLiteral", "StringLiteral", "ArrayExpression",
                                "ObjectExpression"}
         /\ value # Null
      THEN SetKey(t4, name, value)
      ELSE t4

\* The declaration visitor on `name = valueNode`, given the value that
\* resolveExpression returns for valueNode
DeclareResolved(name, valueNode, currentLine, value) ==
  IF value = Throw
  THEN /\ Raise
       /\ UNCHANGED <<variables, objects, variableValues, variableAssignments>>
  ELSE /\ Advance
       /\ variableAssignments' =
            Append(variableAssignments,
                   [type |-> "declaration", name |-> name, value |-> value,
                    line |-> currentLine])
       /\ IF IsNil(valueNode)
          THEN /\ variables' = Append(variables, [name |-> name, value |-> Undef])
               /\ variableValues' = SetKey(variableValues, name, Undef)
               /\ UNCHANGED objects
          ELSE /\ variables' =
                    IF valueNode.type \in {"NumericLiteral", "StringLiteral",
                                           "BooleanLiteral", "NullLiteral"}
                    THEN Append(variables, [name |-> name, value |-> value])
                    ELSE variables
               /\ objects' =
                    IF valueNode.type = "ObjectExpression"
                    THEN Append(objects, [name |-> name, props |-> Keys(value.p)])
                    ELSE objects
               /\ variableValues' = DeclareIn(variableValues, name, valueNode, value)

DeclareNode(visit) ==
  DeclareResolved(visit.node.id.name, visit.node.init, visit.line,
                  IF IsNil(visit.node.init) THEN Undef
                  ELSE resolveExpression(visit.node.init, visit.line, code))

VisitVariableDeclarator ==
  /\ Visiting("VariableDeclarator")
  /\ DeclareNode(Current)
  /\ UNCHANGED <<conditions, events, outputs, commentedCode, functions, domManipulations,
                 loops, declaredVariables, code, results, calls, lastCall, verdict>>

(***************************************************************************)
(* AssignmentExpression visitor                                            *)
(***************************************************************************)
\* this.variableValues.get(name) || 0
CurrentOrZero(table, name) ==
  LET v == GetKey(table, name) IN IF Truthy(v) THEN v ELSE Num(0)

\* the arithmetic operator of a compound assignment operator
BaseOperator(operator) ==
  CASE operator = "-=" -> "-"
    [] operator = "*=" -> "*"
    [] operator = "/=" -> "/"

CompoundValue(operator, currentValue, rightValue) ==
  CASE operator = "+=" -> JSAdd(currentValue, rightValue)
    [] operator \in {"-=", "*=", "/="} ->
         JSArith(BaseOperator(operator), currentValue, rightValue)
    [] OTHER -> rightValue

\* { ...currentObject }: the own properties of an object, or of an array under
\* its indices
SpreadProps(v) ==
  IF v.t = "obj" THEN v.p
  ELSE [i \in 1..Len(v.e) |-> [key |-> NatDigits(i - 1), val |-> v.e[i]]]

\* node.name used as a Map key or a property name; undefined prints "undefined"
NameOrUndefined(node) ==
  IF NameOf(node) = NoName THEN s_undefined ELSE node.name

\* What an assignment to an identifier writes, given the value to store
StoreAssigned(node, currentLine, newValue) ==
  /\ variableAssignments' =
       Append(variableAssignments,
              IF node.operator # "="
              THEN [type |-> "compound_assignment", name |-> node.left.name,
                    value |-> newValue, operator |-> node.operator, line |-> currentLine]
              ELSE [type |-> "reassignment", name |-> node.left.name, value |-> newValue,
                    line |-> currentLine])
  /\ variableValues' = SetKey(variableValues, node.left.name, newValue)

AssignIdentifier(node, currentLine, rightValue) ==
  IF rightValue = Throw
  THEN Raise /\ UNCHANGED <<variableValues, variableAssignments>>
  ELSE /\ Advance
       /\ StoreAssigned(node, currentLine,
                        IF node.operator # "="
                        THEN CompoundValue(node.operator,
                                           CurrentOrZero(variableValues, node.left.name),
                                           rightValue)
                        ELSE rightValue)

\* What an assignment to a property of the object bound to objectName writes
StoreProperty(objectName, propertyName, currentLine, currentObject, newValue) ==
  IF currentObject.t \in {"arr", "obj"}
  THEN /\ variableValues' =
            SetKey(variableValues, objectName,
                   Obj(SetKey(SpreadProps(currentObject), propertyName, newValue)))
       /\ variableAssignments' =
            Append(variableAssignments,
                   [type |-> "property_assignment", name |-> objectName,
                    property |-> propertyName, value |-> newValue, line |-> currentLine])
  ELSE UNCHANGED <<variableValues, variableAssignments>>

AssignMember(node, currentLine, newValue) ==
  IF newValue = Throw
  THEN Raise /\ UNCHANGED <<variableValues, variableAssignments>>
  ELSE /\ Advance
       /\ StoreProperty(NameOrUndefined(node.left.object),
                        NameOrUndefined(node.left.property), currentLine,
                        GetKey(variableValues, NameOrUndefined(node.left.object)),
                        newValue)

\* The assignment visitor, given the value that resolveExpression returns for
\* the right-hand side
AssignResolved(node, currentLine, rightValue) ==
  IF node.left.type = "Identifier" THEN AssignIdentifier(node, currentLine, rightValue)
  ELSE IF node.left.type = "MemberExpression"
  THEN AssignMember(node, currentLine, rightValue)
  ELSE Advance /\ UNCHANGED <<variableValues, variableAssignments>>

AssignNode(visit) ==
  AssignResolved(visit.node, visit.line,
                 resolveExpression(visit.node.right, visit.line, code))

VisitAssignmentExpression ==
  /\ Visiting("AssignmentExpression")
  /\ AssignNode(Current)
  /\ UNCHANGED <<facts, declaredVariables, code, results, calls, lastCall, verdict>>

(***************************************************************************)
(* CallExpression visitor                                                  *)
(***************************************************************************)

CalleeObjectName(callee) == NameOf(Field(callee, "object"))
CalleePropertyName(callee) == NameOf(Field(callee, "property"))

\* One console.log argument as the visitor formats it before args.join(" ")
FormatLogArg(resolved) ==
  CASE resolved.t = "arr" -> ToStr(resolved)
    [] resolved.t \in {"obj", "node"} -> s_objectObject
    [] resolved.t \in {"null", "undef"} -> <<>>
    [] OTHER -> ToStr(resolved)

IsConsoleLog(callee) ==
  CalleeObjectName(callee) = n_console /\ CalleePropertyName(callee) = n_log

IsPushOnArray(callee, table) ==
  /\ callee.type = "MemberExpression"
  /\ KindOf(Field(callee, "object")) = "Identifier"
  /\ GetKey(table, callee.object.name).t = "arr"
  /\ CalleePropertyName(callee) = n_push

IsObjectMethod(callee) ==
  CalleeObjectName(callee) = n_Object /\ CalleePropertyName(callee) # NoName

\* `Object.${callee.property.name}(${arg.name || 'obj'})`
ObjectResultName(callee, arg) ==
  n_Object \o <<".">> \o callee.property.name \o <<"(">>
    \o (IF NameOf(arg) = NoName THEN n_obj ELSE arg.name) \o <<")">>

\* The Binding Table after the Object.* part of the call visitor
ObjectMethodIn(table, callee, arg, resolvedArg) ==
  IF resolvedArg.t = "obj" /\ callee.property.name = n_keys
  THEN SetKey(table, ObjectResultName(callee, arg),
              Arr([i \in 1..Len(resolvedArg.p) |-> Str(resolvedArg.p[i].key)]))
  ELSE IF resolvedArg.t = "obj" /\ callee.property.name = n_values
  THEN SetKey(table, ObjectResultName(callee, arg), Arr(Vals(resolvedArg.p)))
  ELSE table

\* path.node.arguments[0], or undefined
FirstArgument(node) == IF node.arguments = <<>> THEN Nil ELSE node.arguments[1]

\* args.join(" ") of the formatted console.log arguments
LogOutput(resolvedArgs) ==
  JoinChars([i \in 1..Len(resolvedArgs) |-> FormatLogArg(resolvedArgs[i])], <<" ">>)

\* [...currentArray, ...newElements]
UpdatedArray(callee, newElements) ==
  Arr(GetKey(variableValues, callee.object.name).e \o newElements)

\* The Binding Table after the push part of the call visitor
Pushed(callee, newElements) ==
  IF IsPushOnArray(callee, variableValues)
  THEN SetKey(variableValues, callee.object.name, UpdatedArray(callee, newElements))
  ELSE variableValues

\* Part 6 of the call visitor (Object.keys, Object.values, ...), which runs
\* on the Binding Table `pushed` the earlier parts have left; resolvedArg is
\* what resolveExpression returns for the first argument
ObjectMethodResolved(node, pushed, resolvedArg) ==
  IF IsObjectMethod(node.callee) /\ node.arguments # <<>> /\ resolvedArg = Throw
  THEN Raise /\ variableValues' = pushed
  ELSE /\ Advance
       /\ variableValues' =
            IF IsObjectMethod(node.callee) /\ node.arguments # <<>>
            THEN ObjectMethodIn(pushed, node.callee, node.arguments[1], resolvedArg)
            ELSE pushed

ObjectMethodPart(node, currentLine, pushed) ==
  ObjectMethodResolved(node, pushed,
                       resolveIn(FirstArgument(node), currentLine, SourceLines(code),
                                 pushed))

\* Parts 3 to 5 of the call visitor: addEventListener, element selection,
\* innerHTML
DomPart(callee, arg1, currentLine) ==
  /\ events' =
       IF CalleePropertyName(callee) = n_addEventListener
       THEN Append(events,
                   [element |-> IF CalleeObjectName(callee) = NoName THEN n_element
                                ELSE CalleeObjectName(callee),
                    event |-> Field(arg1, "value")])
       ELSE events
  /\ domManipulations' =
       domManipulations
         \o (IF CalleePropertyName(callee) \in {n_getElementById, n_querySelector}
             THEN <<[type |-> "element_selection", method |-> CalleePropertyName(callee),
                     selector |-> Field(arg1, "value"), line |-> currentLine]>>
             ELSE <<>>)
         \o (IF CalleePropertyName(callee) = n_innerHTML
                  /\ KindOf(Field(callee, "object")) = "MemberExpression"
             THEN <<[type |-> "innerHTML_access",
                     element |-> IF NameOf(Field(callee.object, "object")) = NoName
                                 THEN n_element
                                 ELSE callee.object.object.name,
                     line |-> currentLine]>>
             ELSE <<>>)

\* The call visitor, given the values that resolveExpression returns for the
\* arguments.  An exception leaves the visitor with the earlier parts done.
CallResolved(node, currentLine, resolvedArgs) ==
  IF IsConsoleLog(node.callee) /\ AnyThrow(resolvedArgs)
  THEN Raise /\ UNCHANGED <<outputs, variableValues, variableAssignments, events,
                            domManipulations, objects>>
  ELSE
  /\ outputs' = IF IsConsoleLog(node.callee) THEN Append(outputs, LogOutput(resolvedArgs))
                ELSE outputs
  /\ IF IsPushOnArray(node.callee, variableValues) /\ AnyThrow(resolvedArgs)
     THEN Raise /\ UNCHANGED <<variableValues, variableAssignments, events,
                               domManipulations, objects>>
     ELSE
     /\ variableAssignments' =
          IF IsPushOnArray(node.callee, variableValues)
          THEN Append(variableAssignments,
                      [type |-> "array_method", name |-> node.callee.object.name,
                       value |-> UpdatedArray(node.callee, resolvedArgs),
                       method |-> n_push, line |-> currentLine])
          ELSE variableAssignments
     /\ DomPart(node.callee, FirstArgument(node), currentLine)
     /\ objects' =
          IF IsObjectMethod(node.callee)
          THEN Append(objects, [name |-> n_Object, method |-> node.callee.property.name,
                                line |-> currentLine, type |-> "object_method"])
          ELSE objects
     /\ ObjectMethodPart(node, currentLine, Pushed(node.callee, resolvedArgs))

CallNode(visit) ==
  CallResolved(visit.node, visit.line,
               [i \in 1..Len(visit.node.arguments) |->
                  resolveExpression(visit.node.arguments[i], visit.line, code)])

VisitCallExpression ==
  /\ Visiting("CallExpression")
  /\ CallNode(Current)
  /\ UNCHANGED <<variables, conditions, commentedCode, functions, loops,
                 declaredVariables, code, results, calls, lastCall, verdict>>

(***************************************************************************)
(* Visitors: ConditionalExpression and IfStatement                         *)
(***************************************************************************)
\* test.left && test.right
HasBothSides(test) == ~IsNil(Field(test, "left")) /\ ~IsNil(Field(test, "right"))

\* test.operator || this.extractOperator(test): the operator, or null
extractOperator(test) == IF "operator" \in DOMAIN test THEN test.operator ELSE Nil

\* this.conditions.push(...), or the exception of a resolveExpression call
PushCondition(test, left, right) ==
  IF left = Throw \/ right = Throw
  THEN Raise /\ conditions' = conditions
  ELSE /\ Advance
       /\ conditions' = Append(conditions, [variable |-> left,
                                            operator |-> extractOperator(test),
                                            value |-> right])

\* an operand of a ternary's test: the name of an identifier, unresolved
NameOrResolved(operand, resolved) ==
  IF operand.type = "Identifier" THEN Str(operand.name) ELSE resolved

ConditionalNode(visit) ==
  IF HasBothSides(visit.node.test)
  THEN PushCondition(visit.node.test,
                     NameOrResolved(visit.node.test.left,
                                    resolveExpression(visit.node.test.left, visit.line, code)),
                     NameOrResolved(visit.node.test.right,
                                    resolveExpression(visit.node.test.right, visit.line, code)))
  ELSE Advance /\ conditions' = conditions

VisitConditionalExpression ==
  /\ Visiting("ConditionalExpression")
  /\ ConditionalNode(Current)
  /\ UNCHANGED <<variables, objects, events, outputs, commentedCode, functions,
                 domManipulations, loops, variableValues, variableAssignments,
                 declaredVariables, code, results, calls, lastCall, verdict>>

IfNode(visit) ==
  IF HasBothSides(visit.node.test)
  THEN PushCondition(visit.node.test,
                     resolveExpression(visit.node.test.left, visit.line, code),
                     resolveExpression(visit.node.test.right, visit.line, code))
  ELSE Advance /\ conditions' = conditions

VisitIfStatement ==
  /\ Visiting("IfStatement")
  /\ IfNode(Current)
  /\ UNCHANGED <<variables, objects, events, outputs, commentedCode, functions,
                 domManipulations, loops, variableValues, variableAssignments,
                 declaredVariables, code, results, calls, lastCall, verdict>>

(***************************************************************************)
(* Visitors: FunctionDeclaration and the five loop statements              *)
(***************************************************************************)
RECURSIVE hasStatementDeep(_, _)
\* a statement of the given type occurs anywhere in the body
hasStatementDeep(body, type) ==
  /\ ~IsNil(body)
  /\ \/ body.type = type
     \/ \E i \in 1..Len(Children(body)) : hasStatementDeep(Children(body)[i], type)

\* hasReturnStatement, hasBreakStatement, hasContinueStatement: the body is a
\* statement of the given type, or a block with such a statement in it
hasStatement(body, type) ==
  IF IsNil(body) THEN FALSE
  ELSE IF body.type = "BlockStatement"
  THEN \E i \in 1..Len(body.body) : body.body[i].type = type
  ELSE body.type = type

hasReturnStatement(body) == hasStatement(body, "ReturnStatement")
hasBreakStatement(body) == hasStatement(body, "BreakStatement")
hasContinueStatement(body) == hasStatement(body, "ContinueStatement")

FunctionNode(visit) ==
  functions' = Append(functions,
                      [name |-> visit.node.id.name, type |-> "function_declaration",
                       parameters |-> [i \in 1..Len(visit.node.params) |->
                                         NameOf(visit.node.params[i])],
                       line |-> visit.line,
                       hasReturn |-> hasReturnStatement(visit.node.body)])

VisitFunctionDeclaration ==
  /\ Visiting("FunctionDeclaration")
  /\ FunctionNode(Current)
  /\ Advance
  /\ UNCHANGED <<variables, conditions, objects, events, outputs, commentedCode,
                 domManipulations, loops, variableValues, variableAssignments,
                 declaredVariables, code, results, calls, lastCall, verdict>>

LoopNode(visit, kind) ==
  loops' = Append(loops, [type |-> kind, line |-> visit.line,
                          hasBreak |-> hasBreakStatement(visit.node.body),
                          hasContinue |-> hasContinueStatement(visit.node.body)])

\* the five loop visitors have the same body but for the kind they record
LoopVisitor(type, kind) ==
  /\ Visiting(type)
  /\ LoopNode(Current, kind)
  /\ Advance
  /\ UNCHANGED <<variables, conditions, objects, events, outputs, commentedCode,
                 functions, domManipulations, variableValues, variableAssignments,
                 declaredVariables, code, results, calls, lastCall, verdict>>

VisitForStatement == LoopVisitor("ForStatement", "for_loop")
VisitWhileStatement == LoopVisitor("WhileStatement", "while_loop")
VisitForOfStatement == LoopVisitor("ForOfStatement", "for_of_loop")
VisitForInStatement == LoopVisitor("ForInStatement", "for_in_loop")
VisitDoWhileStatement == LoopVisitor("DoWhileStatement", "do_while_loop")

(***************************************************************************)
(* Test synthesizer                                                        *)
(***************************************************************************)
RECURSIVE WordRun(_, _)
\* the number of \w characters of s from position i on
WordRun(s, i) == IF i <= Len(s) /\ IsWordChar(s[i]) THEN 1 + WordRun(s, i + 1) ELSE 0

RECURSIVE SpaceRun(_, _)
SpaceRun(s, i) == IF i <= Len(s) /\ IsSpace(s[i]) THEN 1 + SpaceRun(s, i + 1) ELSE 0

RECURSIVE UpTo(_, _, _)
\* the characters of s from position i up to the first c, or to the end
UpTo(s, i, c) == IF i > Len(s) \/ s[i] = c THEN <<>> ELSE <<s[i]>> \o UpTo(s, i + 1, c)

\* const, let or var when content has it at position i, or <<>>
KeywordAt(content, i) ==
  IF StartsWithAt(content, i, n_const) THEN n_const
  ELSE IF StartsWithAt(content, i, n_let) THEN n_let
  ELSE IF StartsWithAt(content, i, n_var) THEN n_var
  ELSE <<>>

\* /(\w+)\s*=\s*([^;]+);?/ with the name at b .. c - 1 and the = sign due at d
DeclFrom(content, b, c, d) ==
  IF c > b /\ d <= Len(content) /\ content[d] = "=" /\ UpTo(content, d + 1, ";") # <<>>
  THEN <<SubSeq(content, b, c - 1), Trim(UpTo(content, d + 1, ";"))>>
  ELSE <<>>

DeclAfterName(content, b, c) == DeclFrom(content, b, c, c + SpaceRun(content, c))

DeclAfterSpace(content, b) == DeclAfterName(content, b, b + WordRun(content, b))

\* /\s+(\w+)\s*=\s*([^;]+);?/ from position a on
DeclAfterKeyword(content, a) ==
  IF SpaceRun(content, a) = 0 THEN <<>>
  ELSE DeclAfterSpace(content, a + SpaceRun(content, a))

\* content.match(/(?:const|let|var)\s+(\w+)\s*=\s*([^;]+);?/) with the keyword
\* at position i: <<name, value>> (value trimmed), or <<>> when there is no
\* match there
DeclMatchAt(content, i) ==
  IF KeywordAt(content, i) = <<>> THEN <<>>
  ELSE DeclAfterKeyword(content, i + Len(KeywordAt(content, i)))

OrElse(match, others) == IF match # <<>> THEN match ELSE others

\* the leftmost match from position i on
RECURSIVE DeclMatchFrom(_, _)
DeclMatchFrom(content, i) ==
  IF i > Len(content) THEN <<>>
  ELSE OrElse(DeclMatchAt(content, i), DeclMatchFrom(content, i + 1))

DeclMatch(content) == DeclMatchFrom(content, 1)

RECURSIVE WithoutQuotes(_)
\* s.replace(/['"]/g, '')
WithoutQuotes(s) ==
  IF s = <<>> THEN <<>>
  ELSE (IF Head(s) \in {"'", "<dquote>"} THEN <<>> ELSE <<Head(s)>>)
         \o WithoutQuotes(Tail(s))

\* the last position of c in s, or 0
RECURSIVE LastIndexOf(_, _, _)
LastIndexOf(s, c, i) ==
  IF i = 0 \/ s[i] = c THEN i ELSE LastIndexOf(s, c, i - 1)

\* /console\.log\((.+)\);?/ with console.log( ending just before position from
LogFrom(content, from, close) ==
  IF close > from THEN <<SubSeq(content, from, close - 1)>> ELSE <<>>

LogMatchAt(content, i) ==
  IF StartsWithAt(content, i, s_consolelog \o <<"(">>)
  THEN LogFrom(content, i + Len(s_consolelog) + 1, LastIndexOf(content, ")", Len(content)))
  ELSE <<>>

RECURSIVE LogMatchFrom(_, _)
LogMatchFrom(content, i) ==
  IF i > Len(content) THEN <<>>
  ELSE OrElse(LogMatchAt(content, i), LogMatchFrom(content, i + 1))

\* content.match(/console\.log\((.+)\);?/): <<group 1>>, or <<>> for no match
LogMatch(content) == LogMatchFrom(content, 1)

\* Variable tests made from the values the declarations gave
InitialValueTests ==
  [i \in 1..Len(variables) |->
     [type |-> "variable", variable |-> variables[i].name,
      expectedValue |-> variables[i].value]]

VariableTests ==
  [i \in 1..Len(variableValues) |->
     [type |-> "variable", variable |-> variableValues[i].key,
      expectedValue |-> variableValues[i].val]]

ConditionTests ==
  [i \in 1..Len(conditions) |->
     [type |-> "condition", variable |-> conditions[i].variable,
      expectedOperator |-> conditions[i].operator, expectedValue |-> conditions[i].value]]

ObjectTests ==
  [i \in 1..Len(objects) |->
     IF "type" \in DOMAIN objects[i] /\ objects[i].type = "object_method"
     THEN [type |-> "object", objectName |-> objects[i].name, method |-> objects[i].method,
           expectedMethod |-> objects[i].method]
     ELSE [type |-> "object", objectName |-> objects[i].name,
           expectedProperties |-> objects[i].props]]

OutputTests ==
  [i \in 1..Len(outputs) |-> [type |-> "output", expectedOutput |-> outputs[i]]]

EventTests ==
  [i \in 1..Len(events) |->
     [type |-> "event", selector |-> <<"#">> \o events[i].element,
      event |-> events[i].event]]

FunctionTests ==
  [i \in 1..Len(functions) |->
     [type |-> "function", functionName |-> functions[i].name,
      expectedParameters |-> functions[i].parameters, hasReturn |-> functions[i].hasReturn,
      functionType |-> functions[i].type]]

DomTest(d) ==
  IF d.type = "element_selection"
  THEN <<[type |-> "dom_structure", method |-> d.method, selector |-> d.selector]>>
  ELSE IF d.type = "innerHTML_access"
  THEN <<[type |-> "dom_structure", element |-> d.element, property |-> n_innerHTML]>>
  ELSE <<>>

LoopTests ==
  [i \in 1..Len(loops) |->
     [type |-> "loop", loopType |-> loops[i].type, hasBreak |-> loops[i].hasBreak,
      hasContinue |-> loops[i].hasContinue, expectedLoops |-> 1]]

CommentedVariable(comment, varMatch) ==
  IF varMatch # <<>>
  THEN <<[type |-> "commented_variable", variable |-> varMatch[1],
          expectedValue |-> varMatch[2], comment |-> comment.content]>>
  ELSE <<>>

CommentedOutput(comment, outputMatch) ==
  IF outputMatch # <<>>
  THEN <<[type |-> "commented_output",
          expectedOutput |-> Trim(WithoutQuotes(outputMatch[1])),
          comment |-> comment.content]>>
  ELSE <<>>

CommentTest(comment) ==
  IF comment.type = "variable" THEN CommentedVariable(comment, DeclMatch(comment.content))
  ELSE IF comment.type = "output"
  THEN CommentedOutput(comment, LogMatch(comment.content))
  ELSE IF comment.type = "explanation"
  THEN <<[type |-> "explanation", comment |-> comment.content]>>
  ELSE <<>>

RECURSIVE FlatMap(_, _)
FlatMap(Op(_), seq) ==
  IF seq = <<>> THEN <<>> ELSE Op(Head(seq)) \o FlatMap(Op, Tail(seq))

\* a generateTests that lists the output tests first
generateTestsOutputsFirst ==
  LET tests == OutputTests \o VariableTests \o ConditionTests \o ObjectTests
                 \o EventTests \o FunctionTests \o FlatMap(DomTest, domManipulations)
                 \o LoopTests \o FlatMap(CommentTest, commentedCode)
  IN  IF tests = <<>> THEN <<[type |-> "generic"]>> ELSE tests

\* generateTests(code); the `description` texts of the specifications are left out
generateTests ==
  LET tests == VariableTests \o ConditionTests \o ObjectTests \o OutputTests
                 \o EventTests \o FunctionTests \o FlatMap(DomTest, domManipulations)
                 \o LoopTests \o FlatMap(CommentTest, commentedCode)
  IN  IF tests = <<>> THEN <<[type |-> "generic"]>> ELSE tests

\* the end of parse(): traverse() is through.  The object returned holds the
\* instance's own fact lists (the same arrays, not copies) and, as `structure`,
\* the tests generated now; of it the caller's record keeps the structure, and
\* the source it was returned for.
Return ==
  /\ pc = "walking"
  /\ cursor = Len(Todo)
  /\ pc' = "returned"
  /\ results' = Append(results, [code |-> code, structure |-> generateTests])
  /\ UNCHANGED <<fields, code, cursor, calls, lastCall, verdict>>

\* the structure of what the last parse() call that returned has returned
Result == results[Len(results)].structure


(***************************************************************************)
(* The validator (src/testcaseValidator/jsValidator.test.js): the check of  *)
(* a commented_variable test against a student's file.  The file is read   *)
(* line by line: no line of the files considered ends inside a              *)
(* declaration, so no match of the patterns spans two lines.                *)
(***************************************************************************)
\* (?:const|let|var)\s+NAME\s* matched from position i of the line: the
\* position after the match, or 0 for no match
DeclaredNameEnd(line, name, keyword, a) ==
  IF keyword # <<>> /\ SpaceRun(line, a) > 0
       /\ StartsWithAt(line, a + SpaceRun(line, a), name)
  THEN a + SpaceRun(line, a) + Len(name)
         + SpaceRun(line, a + SpaceRun(line, a) + Len(name))
  ELSE 0

DeclaredNameAt(line, name, i) ==
  DeclaredNameEnd(line, name, KeywordAt(line, i), i + Len(KeywordAt(line, i)))

\* the `=` that both patterns want next is at position d
EqualsAt(line, d) == d > 0 /\ d <= Len(line) /\ line[d] = "="

\* uncommentedPattern.test(studentCode)
isUncommented(lines, name) ==
  \E l \in DOMAIN lines : \E i \in DOMAIN lines[l] :
    EqualsAt(lines[l], DeclaredNameAt(lines[l], name, i))

\* \s*([^;\n]+) after the `=` at position d: <<group 1, trimmed>>, or <<>>
ValueAfter(line, d) ==
  IF EqualsAt(line, d) /\ UpTo(line, d + 1, ";") # <<>>
  THEN <<Trim(UpTo(line, d + 1, ";"))>>
  ELSE <<>>

RECURSIVE ValueMatchInLine(_, _, _)
\* the leftmost match of valuePattern in a line, from position i on
ValueMatchInLine(line, name, i) ==
  IF i > Len(line) THEN <<>>
  ELSE OrElse(ValueAfter(line, DeclaredNameAt(line, name, i)),
              ValueMatchInLine(line, name, i + 1))

RECURSIVE ValueMatchFrom(_, _, _)
\* valuePattern.exec(studentCode): the first match in the file
ValueMatchFrom(lines, name, l) ==
  IF l > Len(lines) THEN <<>>
  ELSE OrElse(ValueMatchInLine(lines[l], name, 1), ValueMatchFrom(lines, name, l + 1))

\* assert.strictEqual(actualValue, test.expectedValue) on the match, if any
ValueAccepted(match, test) == match = <<>> \/ match[1] = test.expectedValue

\* runCommentedVariableTest({ studentCode, test }) returns without raising
runCommentedVariableTest(lines, test) ==
  IF isUncommented(lines, test.variable)
  THEN ValueAccepted(ValueMatchFrom(lines, test.variable, 1), test)
  ELSE TRUE

\* String.prototype.toLowerCase, on the characters of Ascii
LowerChar(c) == IF CharCode(c) >= 65 /\ CharCode(c) <= 90 THEN Ascii[CharCode(c) + 1] ELSE c

ToLowerCase(s) == [i \in 1..Len(s) |-> LowerChar(s[i])]

\* /console\.log\([^)]+\)/ matched at position i of a line, the argument text
\* being `inner`: <<the match>>, or <<>>
LogCallWith(line, i, inner) ==
  IF StartsWithAt(line, i, s_consolelog \o <<"(">>) /\ inner # <<>>
       /\ i + Len(s_consolelog) + 1 + Len(inner) <= Len(line)
  THEN <<s_consolelog \o <<"(">> \o inner \o <<")">>>>
  ELSE <<>>

LogCallAt(line, i) == LogCallWith(line, i, UpTo(line, i + Len(s_consolelog) + 1, ")"))

\* studentCode.match(uncommentedPattern) || [], as a set
consoleLogs(lines) ==
  {log \in UNION {{LogCallAt(lines[l], i) : i \in DOMAIN lines[l]} : l \in DOMAIN lines} :
     log # <<>>}

\* consoleLogs.some(log => log.toLowerCase().includes(expectedOutput.toLowerCase()))
hasExpectedOutput(logs, expectedOutput) ==
  \E log \in logs : Includes(ToLowerCase(log[1]), ToLowerCase(expectedOutput))

\* runCommentedOutputTest({ studentCode, test }) returns without raising: both
\* branches end in assert.ok(true)
runCommentedOutputTest(lines, test) ==
  IF hasExpectedOutput(consoleLogs(lines), test.expectedOutput) THEN TRUE ELSE TRUE

(***************************************************************************)
(* The driver (index.js): one parser is constructed and parses one file.    *)
(* The files are all sequences of at most MaxLines lines of LinePool.       *)
(***************************************************************************)
MaxLines == 3

\* Lines 1 to 9 and 13 to 15: declarations of x, s, p and k, the assignments
\* to x and s, console.log(x), a comment line and a line that is no JavaScript
LinePool == (1..9) \cup (13..15)

RECURSIVE SourcesUpTo(_, _)
SourcesUpTo(pool, n) ==
  IF n = 0 THEN {<<>>}
  ELSE SourcesUpTo(pool, n - 1)
         \cup {Append(src, l) : src \in {q \in SourcesUpTo(pool, n - 1) : Len(q) = n - 1},
                                l \in pool}

Sources == SourcesUpTo(LinePool, MaxLines)

\* const parser = new JSParser(); const result = parser.parse(code);
Parse == pc = "new" /\ \E src \in Sources : parse(src)

Next ==
  \/ Parse
  \/ VisitVariableDeclarator
  \/ VisitAssignmentExpression
  \/ VisitCallExpression
  \/ Return

Spec == Init /\ [][Next]_vars

(***************************************************************************)
(* A caller that keeps its parser and, once parse() has returned, calls     *)
(* resolveExpression directly: any expression of Expressions, with the      *)
(* line number 0 (the default) or the number of the file's last line.       *)
(***************************************************************************)
MaxResolveLines == 2

\* var x = 5; let s = ''; x = 2; const p = {a: 1}; const h = [1, , 2];
\* const b = [1, true]; b.push(x); let u; const k = Object.keys(p);
ResolvePool == {1, 2, 3, 8, 9, 10, 11, 12, 16}

ResolveSources == SourcesUpTo(ResolvePool, MaxResolveLines)

s_Total == <<"T", "o", "t", "a", "l", ":", " ">>

\* {b: 2, a: 1}
e_b2_a1 == ObjectExpr(<<Prop(Id(<<"b">>), NumLit(2)), Prop(Id(<<"a">>), NumLit(1))>>)

Expressions ==
  {Id(<<"x">>), Id(<<"q">>), NullLit, NumLit(5),
   \* typeof
   Unary("typeof", NullLit), Unary("typeof", Id(<<"q">>)), Unary("typeof", Id(<<"u">>)),
   Unary("typeof", Id(<<"x">>)), Unary("typeof", Id(<<"s">>)), Unary("typeof", Id(<<"p">>)),
   Unary("typeof", NumLit(5)), Unary("typeof", StrLit(<<"a">>)),
   Unary("typeof", BoolLit(FALSE)),
   \* the other unary operators
   Unary("!", Id(<<"s">>)), Unary("-", Id(<<"x">>)), Unary("+", StrLit(<<"1", ".", "5">>)),
   Unary("~", NumLit(5)),
   \* +
   Binary("+", StrLit(s_Total), NumLit(5)), Binary("+", NumLit(5), NumLit(3)),
   Binary("+", Id(<<"x">>), NumLit(1)), Binary("+", Id(<<"s">>), Id(<<"x">>)),
   Binary("+", NumLit(1), BoolLit(TRUE)), Binary("+", NullLit, NumLit(1)),
   Binary("+", Id(<<"b">>), NumLit(1)), Binary("+", Id(<<"p">>), StrLit(<<"a">>)),
   Binary("+", Binary("/", NumLit(1), NumLit(4)), Binary("/", NumLit(1), NumLit(0))),
   \* the other binary operators
   Binary("-", Id(<<"x">>), StrLit(<<"2">>)), Binary("*", Id(<<"x">>), Id(<<"q">>)),
   Binary("%", NumLit(5), NumLit(3)), Binary("<", Id(<<"x">>), NumLit(3)),
   Binary(">=", StrLit(<<"a">>), StrLit(<<"b">>)), Binary("==", NullLit, Id(<<"u">>)),
   Binary("==", NumLit(5), StrLit(<<"5">>)), Binary("!==", NumLit(5), StrLit(<<"5">>)),
   Binary("**", NumLit(5), NumLit(3)),
   Logical("||", Id(<<"s">>), Id(<<"x">>)), Logical("&&", Id(<<"s">>), Id(<<"x">>)),
   Logical("??", NullLit, NumLit(5)),
   Cond(Id(<<"s">>), NumLit(1), NumLit(2)),
   \* arrays and objects
   ArrayExpr(<<NumLit(1), Nil, NumLit(2)>>), ArrayExpr(<<Spread(Id(<<"b">>))>>),
   ArrayExpr(<<NumLit(1), Id(<<"x">>)>>),
   ObjectExpr(<<Spread(Id(<<"p">>))>>), ObjectExpr(<<Prop(StrLit(<<"k">>), NumLit(1))>>),
   ObjectExpr(<<Prop(Id(<<"a">>), Id(<<"x">>)), Prop(Id(<<"a">>), NumLit(2))>>),
   \* members and calls
   Member(Id(<<"p">>), Id(<<"a">>)), Member(Id(<<"s">>), Id(n_length)),
   Member(Id(<<"b">>), Id(n_length)), Member(Id(<<"x">>), Id(<<"a">>)),
   Member(ObjectExpr(<<Prop(Id(<<"x">>), NumLit(1))>>), Id(<<"x">>)),
   Call(Id(n_add), <<NumLit(5), NumLit(3)>>), Call(Id(n_multiply), <<Id(<<"x">>), NumLit(3)>>),
   Call(Id(<<"f">>), <<>>), Call(Member(Id(n_Object), Id(n_keys)), <<Id(<<"p">>)>>),
   Call(Member(Id(n_Object), Id(n_values)), <<Id(<<"p">>)>>),
   Call(Member(Id(n_Object), Id(n_keys)), <<e_b2_a1>>),
   Call(Member(Id(n_Object), Id(n_values)), <<e_b2_a1>>),
   Call(Member(Id(<<"p">>), Id(<<"f">>)), <<>>),
   Call(Id(n_add), <<StrLit(<<"a">>), NumLit(1)>>),
   \* node kinds that resolveExpression has no case for
   [type |-> "ThisExpression"], [type |-> "TemplateLiteral"]}

ParseForResolve == pc = "new" /\ \E src \in ResolveSources : parse(src)

\* The owner makes a call, and may make the same call once more.
MayResolve(expr, line) ==
  /\ pc = "returned"
  /\ \/ lastCall = NoCall
     \/ /\ lastCall # NoCall
        /\ ~lastCall.again
        /\ lastCall.expr = expr
        /\ lastCall.line = line

\* the record of a call and of what it returned
Called(expr, line) ==
  [expr |-> expr, line |-> line, value |-> resolveExpression(expr, line, code),
   again |-> lastCall # NoCall]

\* A resolveExpression that binds an identifier to what it resolved it to
ResolveAndBind(expr, line) ==
  /\ MayResolve(expr, line)
  /\ lastCall' = Called(expr, line)
  /\ variableValues' =
       IF expr.type = "Identifier"
       THEN SetKey(variableValues, expr.name, resolveExpression(expr, line, code))
       ELSE variableValues
  /\ UNCHANGED <<facts, variableAssignments, declaredVariables, pc, code, cursor,
                 results, calls, verdict>>

\* parser.resolveExpression(expr, line, code), called by the parser's owner
ResolveCall(expr, line) ==
  /\ MayResolve(expr, line)
  /\ lastCall' = Called(expr, line)
  /\ UNCHANGED <<fields, pc, code, cursor, results, calls, verdict>>

Resolve == \E expr \in Expressions, line \in {0, Len(code)} : ResolveCall(expr, line)

NextResolve ==
  \/ ParseForResolve
  \/ VisitVariableDeclarator
  \/ VisitAssignmentExpression
  \/ VisitCallExpression
  \/ Return
  \/ Resolve

SpecResolve == Init /\ [][NextResolve]_vars

(***************************************************************************)
(* A caller that keeps its parser and calls parse() on it again, up to      *)
(* MaxCalls times in all, whether the call before returned or raised.       *)
(***************************************************************************)
MaxCalls == 2

MaxReuseLines == 2

\* // const t = 42;    and    var x = 5; x = 2; console.log(x);
ReusePool == {14, 17}

ReuseSources == SourcesUpTo(ReusePool, MaxReuseLines)

ParseFirst == pc = "new" /\ \E src \in ReuseSources : parse(src)

ParseAgain ==
  /\ pc \in {"returned", "threw"}
  /\ calls < MaxCalls
  /\ \E src \in ReuseSources : parse(src)

NextReuse ==
  \/ ParseFirst
  \/ ParseAgain
  \/ VisitVariableDeclarator
  \/ VisitAssignmentExpression
  \/ VisitCallExpression
  \/ Return

SpecReuse == Init /\ [][NextReuse]_vars

(***************************************************************************)
(* Files made of loop statements                                           *)
(***************************************************************************)
LoopPool == 18..22

LoopSources == SourcesUpTo(LoopPool, MaxLines)

ParseLoops == pc = "new" /\ \E src \in LoopSources : parse(src)

NextLoops ==
  \/ ParseLoops
  \/ VisitIfStatement
  \/ VisitForStatement
  \/ VisitWhileStatement
  \/ VisitForOfStatement
  \/ VisitForInStatement
  \/ VisitDoWhileStatement
  \/ Return

SpecLoops == Init /\ [][NextLoops]_vars

(***************************************************************************)
(* Files that give facts of every kind                                     *)
(***************************************************************************)
\* var x = 5; console.log(x); const p = {a: 1}; const k = Object.keys(p);
\* // const t = 42; for (;;) { break; } if (x > 3) { } x > s ? 1 : 2;
\* btn.addEventListener('click', f); document.getElementById('out');
\* function f(a) { return a; } // console.log(t); discount   // let y
KindPool == {1, 2, 7, 8, 9, 14, 18} \cup (23..29) \cup (33..35)

MaxKindLines == 2

KindSources == SourcesUpTo(KindPool, MaxKindLines)

ParseKinds == pc = "new" /\ \E src \in KindSources : parse(src)

NextKinds ==
  \/ ParseKinds
  \/ VisitVariableDeclarator
  \/ VisitConditionalExpression
  \/ VisitIfStatement
  \/ VisitCallExpression
  \/ VisitFunctionDeclaration
  \/ VisitForStatement
  \/ Return

SpecKinds == Init /\ [][NextKinds]_vars

(***************************************************************************)
(* A teacher's file is parsed, and the validator runs one of the            *)
(* commented_variable tests of the structure against a student's file.      *)
(***************************************************************************)
MaxStudentLines == 2

\* var x = 5; // const t = 42;
\* and // console.log(t); discount
TeacherPool == {1, 14, 28}

\* var x = 5; console.log(x); // const t = 42; // console.log(t); discount
\* const t = 42; const t = 7;
StudentPool == {1, 7, 14, 28, 30, 31}

TeacherSources == SourcesUpTo(TeacherPool, MaxStudentLines)

StudentSources == SourcesUpTo(StudentPool, MaxStudentLines)

ParseTeacher == pc = "new" /\ \E src \in TeacherSources : parse(src)

Validate ==
  /\ pc = "returned"
  /\ verdict = NoVerdict
  /\ \E i \in DOMAIN Result : \E student \in StudentSources :
       /\ Result[i].type = "commented_variable"
       /\ verdict' = [test |-> Result[i], student |-> student,
                      passed |-> runCommentedVariableTest(SourceLines(student), Result[i])]
  /\ UNCHANGED <<fields, pc, code, cursor, results, calls, lastCall>>

ValidateOutput ==
  /\ pc = "returned"
  /\ verdict = NoVerdict
  /\ \E i \in DOMAIN Result : \E student \in StudentSources :
       /\ Result[i].type = "commented_output"
       /\ verdict' = [test |-> Result[i], student |-> student,
                      passed |-> runCommentedOutputTest(SourceLines(student), Result[i])]
  /\ UNCHANGED <<fields, pc, code, cursor, results, calls, lastCall>>

NextValidate ==
  \/ ParseTeacher
  \/ VisitVariableDeclarator
  \/ Return
  \/ Validate
  \/ ValidateOutput

SpecValidate == Init /\ [][NextValidate]_vars

(***************************************************************************)
(* The driver run twice on one file: each run constructs its own parser.    *)
(***************************************************************************)
MaxOrderLines == 3

MaxRuns == 2

\* var x = 5;  let s = '';  x = 2;  x += 3;  const p = {a: 1};
\* const b = [1, true];  b.push(x);  p.a = 2;  b.a = 2;
OrderPool == {1, 2, 3, 5, 8, 11, 12, 32, 36}

OrderSources == SourcesUpTo(OrderPool, MaxOrderLines)

ParseOrder == pc = "new" /\ results = <<>> /\ \E src \in OrderSources : parse(src)

\* new JSParser(), for the next run
Construct ==
  /\ pc = "returned"
  /\ Len(results) < MaxRuns
  /\ variables' = <<>>
  /\ conditions' = <<>>
  /\ objects' = <<>>
  /\ events' = <<>>
  /\ outputs' = <<>>
  /\ commentedCode' = <<>>
  /\ functions' = <<>>
  /\ domManipulations' = <<>>
  /\ loops' = <<>>
  /\ variableValues' = <<>>
  /\ variableAssignments' = <<>>
  /\ declaredVariables' = {}
  /\ pc' = "new"
  /\ code' = <<>>
  /\ cursor' = 0
  /\ calls' = 0
  /\ UNCHANGED <<results, lastCall, verdict>>

\* the new parser parses the file of the first run
ParseSame == pc = "new" /\ results # <<>> /\ parse(results[1].code)

NextOrder ==
  \/ ParseOrder
  \/ VisitVariableDeclarator
  \/ VisitAssignmentExpression
  \/ VisitCallExpression
  \/ Return
  \/ Construct
  \/ ParseSame

SpecOrder == Init /\ [][NextOrder]_vars

(***************************************************************************)
(* Files that declare x and the array b and call push and console.log.      *)
(***************************************************************************)
MaxPushLines == 3

\* var x = 5;  const b = [1, true];  b.push(x);  b.push([1, , 2]);
\* Object.push(x);  x.push(1, 2);  b.push(x, 'a');  console.log([1, , 2]);
\* console.log(b, null, x);  if (x) { console.log(x); }
PushPool == {1, 11, 12} \cup (37..43)

PushSources == SourcesUpTo(PushPool, MaxPushLines)

ParsePush == pc = "new" /\ \E src \in PushSources : parse(src)

NextPush ==
  \/ ParsePush
  \/ VisitVariableDeclarator
  \/ VisitIfStatement
  \/ VisitCallExpression
  \/ Return

SpecPush == Init /\ [][NextPush]_vars

(***************************************************************************)
(* Properties                                                              *)
(***************************************************************************)
\* the variable specifications for `name` in the structure last returned
VariableSpecs(name) ==
  {i \in DOMAIN Result : Result[i].type = "variable" /\ Result[i].variable = name}

\* the syntax-tree node writes the binding of `name`
WritesName(node, name) ==
  \/ node.type = "VariableDeclarator" /\ node.id.name = name
  \/ node.type = "AssignmentExpression"
       /\ (NameOf(node.left) = name \/ NameOf(Field(node.left, "object")) = name)
  \/ node.type = "CallExpression" /\ CalleeObjectName(node.callee) = name

RECURSIVE Select(_, _, _)
\* the visits of todo that write the binding of `name`, in order
Select(todo, name, i) ==
  IF i > Len(todo) THEN <<>>
  ELSE (IF WritesName(todo[i].node, name) THEN <<todo[i]>> ELSE <<>>)
         \o Select(todo, name, i + 1)

WritesOf(name) == Select(Todo, name, 1)

\* the names the file declares
DeclaredNames ==
  {Todo[i].node.id.name : i \in {k \in DOMAIN Todo : Todo[k].node.type = "VariableDeclarator"}}

\* `name` is declared, then reassigned by plain = at least once, and nothing
\* else writes it
DeclaredThenReassigned(name) ==
  LET w == WritesOf(name)
  IN  /\ Len(w) >= 2
      /\ w[1].node.type = "VariableDeclarator"
      /\ \A i \in 2..Len(w) :
           /\ w[i].node.type = "AssignmentExpression"
           /\ w[i].node.operator = "="
           /\ w[i].node.left.type = "Identifier"

\* the value the Assignment Record holds for the last write of `name`
LastRecorded(name) ==
  LET at == {i \in DOMAIN variableAssignments : variableAssignments[i].name = name}
  IN  variableAssignments[CHOOSE i \in at : \A j \in at : j <= i].value

IsLiteral(node) ==
  KindOf(node) \in {"NumericLiteral", "StringLiteral", "BooleanLiteral"}

\* C1: when a variable is declared and then reassigned by plain = once or more
\* often, the structure returned holds exactly one variable specification for
\* it, and its expectedValue is the value resolved for the last of these
\* assignments: the one the Assignment Record holds last and, when the last
\* right-hand side is a literal, that literal's value.
LastAssignmentWins ==
  pc = "returned" =>
    \A name \in DeclaredNames :
      DeclaredThenReassigned(name) =>
        /\ Cardinality(VariableSpecs(name)) = 1
        /\ \A i \in VariableSpecs(name) :
             /\ Result[i].expectedValue = LastRecorded(name)
             /\ LET last == WritesOf(name)[Len(WritesOf(name))].node.right
                IN  IsLiteral(last) => Result[i].expectedValue = last.value

\* var x = 5; x = x + 1; x = 2; has returned one specification for x, with 2
LastAssignmentWinsSeen ==
  /\ pc = "returned"
  /\ DeclaredThenReassigned(<<"x">>)
  /\ Len(WritesOf(<<"x">>)) = 3
  /\ WritesOf(<<"x">>)[2].node.right = Binary("+", Id(<<"x">>), NumLit(1))
  /\ \E i \in VariableSpecs(<<"x">>) : Result[i].expectedValue = Num(2)

\* the declarations the walk visits
Declarators ==
  {i \in DOMAIN Todo : Todo[i].node.type = "VariableDeclarator"}

\* the file declares distinct names, each once and with an initializer, and
\* assigns to none of them
OnlyDeclares ==
  /\ \A i \in Declarators : ~IsNil(Todo[i].node.init)
  /\ \A i, j \in Declarators : Todo[i].node.id.name = Todo[j].node.id.name => i = j
  /\ \A i \in DOMAIN Todo : Todo[i].node.type # "AssignmentExpression"

\* C2: for a file that declares N distinct names, each once with an initializer
\* and never reassigned, the structure returned holds exactly N variable
\* specifications, one for each declared name, a literal initializer's value
\* being the expectedValue.
OneSpecPerDeclaration ==
  (pc = "returned" /\ OnlyDeclares) =>
    /\ Cardinality({i \in DOMAIN Result : Result[i].type = "variable"})
         = Cardinality(Declarators)
    /\ \A d \in Declarators :
         /\ Cardinality(VariableSpecs(Todo[d].node.id.name)) = 1
         /\ \A i \in VariableSpecs(Todo[d].node.id.name) :
              IsLiteral(Todo[d].node.init)
                => Result[i].expectedValue = Todo[d].node.init.value

\* C3: a parse() call on a parser that has parsed before returns what the same
\* call returns on a new parser: the structure returned for a source is the
\* structure the first call, made on the new parser, returned for the same
\* source, and for the empty source it is the generic specification alone.
ReparseIsFresh ==
  /\ \A i \in DOMAIN results :
       results[i].code = results[1].code => results[i].structure = results[1].structure
  /\ \A i \in DOMAIN results :
       results[i].code = <<>> => results[i].structure = <<[type |-> "generic"]>>

\* C4: when the source is no JavaScript, parse() raises, returns nothing, and
\* leaves the Binding Table, the Assignment Record and every fact list, the
\* commented-code list too, as they were before the call (empty, the parser
\* being new).
FailedParseLeavesNothing ==
  (pc = "threw" /\ SyntaxError(code)) =>
    /\ results = <<>>
    /\ variableValues = <<>>
    /\ variableAssignments = <<>>
    /\ declaredVariables = {}
    /\ \A i \in DOMAIN facts : facts[i] = <<>>

\* C5: resolveExpression never raises, whatever the expression and the Binding
\* Table, and so the walk of a source that is JavaScript never ends in an
\* exception.
ResolveNeverThrows ==
  /\ lastCall # NoCall => lastCall.value # Throw
  /\ pc = "threw" => SyntaxError(code)

RECURSIVE StatementsFrom(_, _)
StatementsFrom(src, i) ==
  IF i > Len(src) THEN <<>>
  ELSE (IF Line(src[i]).kind = "code"
        THEN [k \in 1..Len(Line(src[i]).stmts) |-> [stmt |-> Line(src[i]).stmts[k], line |-> i]]
        ELSE <<>>)
         \o StatementsFrom(src, i + 1)

\* the statement is `var name = <initializer>;`
IsVarOf(stmt, name) ==
  /\ stmt.type = "VariableDeclaration"
  /\ stmt.kind = n_var
  /\ \E k \in DOMAIN stmt.declarations :
       stmt.declarations[k].id.name = name /\ ~IsNil(stmt.declarations[k].init)

\* the statement is a console.log call
IsLog(stmt) ==
  /\ stmt.type = "ExpressionStatement"
  /\ stmt.expression.type = "CallExpression"
  /\ IsConsoleLog(stmt.expression.callee)

\* C7: when a file prints an identifier with console.log(name) before the var
\* declaration that initializes it, the output recorded for that call is the
\* empty string.
LogBeforeVarIsEmpty ==
  pc = "returned" =>
    LET stmts == StatementsFrom(code, 1)
    IN  \A name \in DeclaredNames : \A i, j \in DOMAIN stmts :
          (/\ i < j
           /\ stmts[i].stmt = ConsoleLog(<<Id(name)>>)
           /\ IsVarOf(stmts[j].stmt, name)
           /\ \A k \in 1..i : ~IsVarOf(stmts[k].stmt, name))
            => outputs[Cardinality({k \in 1..i : IsLog(stmts[k].stmt)})] = <<>>

\* the operand of a typeof is an identifier that was never assigned
NeverAssigned(node) ==
  node.type = "Identifier" /\ GetKey(variableValues, node.name) = Undef

\* C8: typeof e resolves to "object" for the null literal, to "undefined" for an
\* identifier that was never assigned (it is absent from the Binding Table, or
\* bound to undefined by a declaration without initializer), and to "number",
\* "string" or "boolean" for any other operand that resolves to a number, a
\* string or a boolean.
TypeofMapping ==
  (/\ lastCall # NoCall
   /\ lastCall.expr.type = "UnaryExpression"
   /\ lastCall.expr.operator = "typeof") =>
    LET e == lastCall.expr.argument
        argument == resolveExpression(e, lastCall.line, code)
    IN  /\ e = NullLit => lastCall.value = Str(<<"o", "b", "j", "e", "c", "t">>)
        /\ NeverAssigned(e) => lastCall.value = Str(s_undefined)
        /\ (~NeverAssigned(e) /\ IsNumber(argument))
             => lastCall.value = Str(<<"n", "u", "m", "b", "e", "r">>)
        /\ (~NeverAssigned(e) /\ IsString(argument))
             => lastCall.value = Str(<<"s", "t", "r", "i", "n", "g">>)
        /\ (~NeverAssigned(e) /\ argument.t = "bool")
             => lastCall.value = Str(<<"b", "o", "o", "l", "e", "a", "n">>)

\* C9: a compound assignment x op= e to a bound x sets its binding to
\* (the binding of x) op (e resolved) when op is one of + - * /, whatever the
\* binding of x, and to e resolved for any other operator.
CompoundAppliesOperator ==
  [][(/\ Visiting("AssignmentExpression")
      /\ Current.node.left.type = "Identifier"
      /\ Current.node.operator # "="
      /\ GetKey(variableValues, Current.node.left.name) # Undef
      /\ pc' = "walking") =>
       LET x == Current.node.left.name
           op == Current.node.operator
           e == resolveExpression(Current.node.right, Current.line, code)
       IN  GetKey(variableValues', x) =
             (IF op = "+=" THEN JSAdd(GetKey(variableValues, x), e)
              ELSE IF op \in {"-=", "*=", "/="}
              THEN JSArith(BaseOperator(op), GetKey(variableValues, x), e)
              ELSE e)]_vars

\* C10: a binary + resolves to the concatenation of its two resolved operands,
\* as strings, when one of them is a string, and to their sum when both are
\* numbers; "Total: " + 5 resolves to "Total: 5".
PlusConcatenatesOrAdds ==
  (/\ lastCall # NoCall
   /\ lastCall.expr.type = "BinaryExpression"
   /\ lastCall.expr.operator = "+") =>
    LET left == resolveExpression(lastCall.expr.left, lastCall.line, code)
        right == resolveExpression(lastCall.expr.right, lastCall.line, code)
    IN  /\ (IsString(left) \/ IsString(right))
             => lastCall.value = Str(ToStr(left) \o ToStr(right))
        /\ (IsNumber(left) /\ IsNumber(right)) => lastCall.value = NumAdd(left, right)
        /\ lastCall.expr = Binary("+", StrLit(s_Total), NumLit(5))
             => lastCall.value = Str(<<"T", "o", "t", "a", "l", ":", " ", "5">>)

\* "Total: " + 5 has been resolved to "Total: 5"
PlusConcatenatesSeen ==
  /\ lastCall # NoCall
  /\ lastCall.expr = Binary("+", StrLit(s_Total), NumLit(5))
  /\ lastCall.value = Str(<<"T", "o", "t", "a", "l", ":", " ", "5">>)

\* the Object.* calls the walk visits, and the method-use facts it recorded
ObjectMethodCalls ==
  SelectSeq(Todo, LAMBDA v : v.node.type = "CallExpression" /\ IsObjectMethod(v.node.callee))

ObjectMethodFacts ==
  SelectSeq(objects, LAMBDA o : "type" \in DOMAIN o /\ o.type = "object_method")

\* C11: Object.keys(m) and Object.values(m), m resolving to a key-value mapping,
\* resolve to the sequence of m's keys and of m's values in m's insertion order;
\* and the walk records one method-use fact for every Object.* call it visits,
\* in order, with the called method's name.
ObjectKeysInOrder ==
  /\ (/\ lastCall # NoCall
      /\ lastCall.expr.type = "CallExpression"
      /\ IsObjectMethod(lastCall.expr.callee)
      /\ Len(lastCall.expr.arguments) = 1) =>
       LET m == resolveExpression(lastCall.expr.arguments[1], lastCall.line, code)
       IN  m.t = "obj" =>
             /\ lastCall.expr.callee.property.name = n_keys =>
                  /\ lastCall.value.t = "arr"
                  /\ Len(lastCall.value.e) = Len(m.p)
                  /\ \A i \in 1..Len(m.p) : lastCall.value.e[i] = Str(m.p[i].key)
             /\ lastCall.expr.callee.property.name = n_values =>
                  /\ lastCall.value.t = "arr"
                  /\ Len(lastCall.value.e) = Len(m.p)
                  /\ \A i \in 1..Len(m.p) : lastCall.value.e[i] = m.p[i].val
  /\ pc = "returned" =>
       /\ Len(ObjectMethodFacts) = Len(ObjectMethodCalls)
       /\ \A i \in 1..Len(ObjectMethodFacts) :
            ObjectMethodFacts[i].method = ObjectMethodCalls[i].node.callee.property.name

\* after const p = {a: 1}; const k = Object.keys(p); with its one keys fact,
\* Object.values({b: 2, a: 1}) has been resolved to [2, 1]
ObjectKeysInOrderSeen ==
  /\ lastCall # NoCall
  /\ lastCall.expr = Call(Member(Id(n_Object), Id(n_values)), <<e_b2_a1>>)
  /\ lastCall.value = Arr(<<Num(2), Num(1)>>)
  /\ code = <<8, 9>>
  /\ Len(ObjectMethodFacts) = 1
  /\ ObjectMethodFacts[1].method = n_keys

\* the loop statements the walk visits, in order
LoopVisits == SelectSeq(Todo, LAMBDA v : v.node.type \in LoopTypes)

\* the kind a Loop fact names for a loop statement
LoopKind(type) ==
  CASE type = "ForStatement" -> "for_loop"
    [] type = "WhileStatement" -> "while_loop"
    [] type = "DoWhileStatement" -> "do_while_loop"
    [] type = "ForOfStatement" -> "for_of_loop"
    [] type = "ForInStatement" -> "for_in_loop"

\* a statement of the given type is the body, or a direct child of the body block
Immediate(body, type) ==
  \/ body.type = type
  \/ body.type = "BlockStatement" /\ \E i \in DOMAIN body.body : body.body[i].type = type

\* C12: every loop statement of the five kinds gives exactly one Loop fact, of
\* its kind, whose hasBreak (hasContinue) is true exactly when a break
\* (continue) statement is the loop's body or a direct child of its body block.
OneFactPerLoop ==
  pc = "returned" =>
    /\ Len(loops) = Len(LoopVisits)
    /\ \A i \in 1..Len(loops) :
         /\ loops[i].type = LoopKind(LoopVisits[i].node.type)
         /\ loops[i].hasBreak = Immediate(LoopVisits[i].node.body, "BreakStatement")
         /\ loops[i].hasContinue = Immediate(LoopVisits[i].node.body, "ContinueStatement")

\* while (x) { if (x) { break; } continue; } and for (e of b) { for (j in p)
\* { break; } } have given three facts; only the innermost loop has a break
OneFactPerLoopSeen ==
  /\ pc = "returned"
  /\ code = <<19, 21>>
  /\ Len(loops) = 3
  /\ loops[1].type = "while_loop" /\ ~loops[1].hasBreak /\ loops[1].hasContinue
  /\ loops[2].type = "for_of_loop" /\ ~loops[2].hasBreak
  /\ loops[3].type = "for_in_loop" /\ loops[3].hasBreak

\* the source file holds no statement: it is empty or made of comments only
NoStatements(src) == \A i \in DOMAIN src : Line(src[i]).kind = "comment"

\* C13: for a source without statements (empty, or comments only, whatever they
\* say) the structure returned is exactly one generic specification; and in
\* every structure returned a generic specification is the only element.
GenericAlone ==
  pc = "returned" =>
    /\ NoStatements(code) => Result = <<[type |-> "generic"]>>
    /\ (\E i \in DOMAIN Result : Result[i].type = "generic") => Len(Result) = 1

\* the place of a specification's group in the fixed order
GroupRank(type) ==
  CASE type = "variable" -> 1
    [] type = "condition" -> 2
    [] type = "object" -> 3
    [] type = "output" -> 4
    [] type = "event" -> 5
    [] type = "function" -> 6
    [] type = "dom_structure" -> 7
    [] type = "loop" -> 8
    [] type \in {"commented_variable", "commented_output", "explanation"} -> 9
    [] type = "generic" -> 10

\* the specifications of one group, in the order they have in the structure
Group(rank) == SelectSeq(Result, LAMBDA t : GroupRank(t.type) = rank)

\* the commented facts that have a specification: an explanation, and a
\* declaration or console.log call that the synthesizer can read
Synthesized(comment) ==
  \/ comment.type = "explanation"
  \/ comment.type = "variable" /\ DeclMatch(comment.content) # <<>>
  \/ comment.type = "output" /\ LogMatch(comment.content) # <<>>

\* the specification type of a commented fact
CommentedType(type) ==
  IF type = "explanation" THEN type
  ELSE IF type = "variable" THEN "commented_variable" ELSE "commented_output"

\* C14: in every structure returned the specifications are grouped by kind, in
\* the order variable, condition, object, output, event, function,
\* dom_structure, loop, commented code; and within a group they are in the
\* order in which the walk recorded their facts.
GroupedInFixedOrder ==
  pc = "returned" =>
    /\ \A i, j \in DOMAIN Result :
         i < j => GroupRank(Result[i].type) <= GroupRank(Result[j].type)
    /\ [i \in DOMAIN Group(1) |-> Group(1)[i].variable]
         = [i \in DOMAIN variableValues |-> variableValues[i].key]
    /\ [i \in DOMAIN Group(2) |-> <<Group(2)[i].variable, Group(2)[i].expectedOperator,
                                    Group(2)[i].expectedValue>>]
         = [i \in DOMAIN conditions |-> <<conditions[i].variable, conditions[i].operator,
                                          conditions[i].value>>]
    /\ [i \in DOMAIN Group(3) |-> <<Group(3)[i].objectName, "method" \in DOMAIN Group(3)[i]>>]
         = [i \in DOMAIN objects |-> <<objects[i].name, "method" \in DOMAIN objects[i]>>]
    /\ [i \in DOMAIN Group(4) |-> Group(4)[i].expectedOutput] = outputs
    /\ [i \in DOMAIN Group(5) |-> Group(5)[i].event]
         = [i \in DOMAIN events |-> events[i].event]
    /\ [i \in DOMAIN Group(6) |-> Group(6)[i].functionName]
         = [i \in DOMAIN functions |-> functions[i].name]
    /\ [i \in DOMAIN Group(7) |-> Group(7)[i].selector]
         = [i \in DOMAIN domManipulations |-> domManipulations[i].selector]
    /\ [i \in DOMAIN Group(8) |-> Group(8)[i].loopType]
         = [i \in DOMAIN loops |-> loops[i].type]
    /\ [i \in DOMAIN Group(9) |-> <<Group(9)[i].type, Group(9)[i].comment>>]
         = [i \in DOMAIN SelectSeq(commentedCode, Synthesized) |->
              <<CommentedType(SelectSeq(commentedCode, Synthesized)[i].type),
                SelectSeq(commentedCode, Synthesized)[i].content>>]

\* function f(a) { return a; } and then console.log(x); have returned the
\* specification for the output before the one for f
GroupedInFixedOrderSeen ==
  /\ pc = "returned"
  /\ code = <<27, 7>>
  /\ [i \in DOMAIN Result |-> Result[i].type] = <<"output", "function">>

\* the number of facts the walk and the comment scan have recorded
FactCount ==
  Len(variableValues) + Len(conditions) + Len(objects) + Len(outputs) + Len(events)
    + Len(functions) + Len(domManipulations) + Len(loops) + Len(commentedCode)

\* C15: the structure returned holds one specification for each fact: when
\* there is a fact at all, as many specifications as there are Binding Table
\* entries and condition, object, output, event, function, DOM, loop and
\* commented facts together; and one commented-code specification for each
\* commented fact.
OneSpecPerFact ==
  pc = "returned" =>
    /\ FactCount > 0 => Len(Result) = FactCount
    /\ Len(Group(9)) = Len(commentedCode)

\* the lines of a student's file that declare `name`, uncommented, with a value
UncommentedDeclarations(student, name) ==
  {l \in DOMAIN student :
     /\ Line(student[l]).kind = "code"
     /\ \E k \in DOMAIN Line(student[l]).stmts :
          /\ Line(student[l]).stmts[k].type = "VariableDeclaration"
          /\ Line(student[l]).stmts[k].declarations[1].id.name = name}

\* the text of the value that line l of the student's file gives `name`
DeclaredValueText(student, l) == Unparse(Line(student[l]).stmts[1].declarations[1].init)

\* C16: the check of a commented_variable test made from // const <name> = <v>;
\* passes for a student's file in which the declaration is still only a
\* comment, passes when the file declares <name> uncommented with the value
\* <v>, and fails when the file's uncommented declaration of <name> has another
\* value, whether the comment line is still in the file or not.
CommentedVariableCheck ==
  (verdict # NoVerdict /\ verdict.test.type = "commented_variable") =>
    LET declared == UncommentedDeclarations(verdict.student, verdict.test.variable)
    IN  /\ declared = {} => verdict.passed
        /\ \A l \in declared :
             Cardinality(declared) = 1 =>
               (verdict.passed
                  <=> DeclaredValueText(verdict.student, l) = verdict.test.expectedValue)

\* the visit at hand is an `if` or a ternary testing `L op R`, L an identifier
TestsComparison(type) ==
  /\ Visiting(type)
  /\ Current.node.test.type = "BinaryExpression"
  /\ Current.node.test.left.type = "Identifier"

\* the Condition fact of the claim: the name of L, op, the resolved R
ClaimedCondition(test, line) ==
  [variable |-> Str(test.left.name), operator |-> test.operator,
   value |-> resolveExpression(test.right, line, code)]

\* C17: for every `if` statement and every ternary expression whose test is a
\* comparison `L op R`, the Condition fact recorded holds the unresolved name
\* of L (also when L is bound in the Binding Table), the operator, and the
\* resolved value of R (the bound value when R is a bound identifier).
ConditionKeepsLeftName ==
  [][\A type \in {"IfStatement", "ConditionalExpression"} :
       TestsComparison(type) =>
         conditions' = Append(conditions, ClaimedCondition(Current.node.test, Current.line))]_vars

\* the names of the variable specifications of a structure, in its order
VariableNames(structure) == Keys([i \in DOMAIN SelectSeq(structure, LAMBDA t : t.type = "variable") |-> [key |-> SelectSeq(structure, LAMBDA t : t.type = "variable")[i].variable]])

\* every name of the table `before` has the same position in `after`
KeepsPositions(before, after) ==
  /\ Len(after) >= Len(before)
  /\ \A i \in DOMAIN before : after[i].key = before[i].key

\* C18: the variable specifications come in Binding Table insertion order: a
\* name that is in the table keeps its position through every later write
\* (reassignment, compound assignment, property assignment, push), a new name
\* goes to the end, the structure returned lists the names in the table's
\* order, and two runs on one file, each with its own parser, return the same
\* structure.
InsertionOrderKept ==
  [][/\ pc = "walking" => KeepsPositions(variableValues, variableValues')
     /\ pc' = "returned" => VariableNames(Result') = Keys(variableValues')
     /\ \A i, j \in DOMAIN results' :
          results'[i].code = results'[j].code
            => results'[i].structure = results'[j].structure]_vars

\* a second run has returned for a file that writes the first name of the
\* table, then the second, then the first again
InsertionOrderKeptSeen ==
  /\ pc = "returned"
  /\ Len(results) = MaxRuns
  /\ Len(variableValues) >= 2
  /\ \E a, b, c \in DOMAIN variableAssignments :
       /\ a < b /\ b < c
       /\ variableAssignments[a].name = variableValues[1].key
       /\ variableAssignments[b].name = variableValues[2].key
       /\ variableAssignments[c].name = variableValues[1].key

\* the visit at hand is a call console.log(<identifier>)
LogsIdentifier ==
  /\ Visiting("CallExpression")
  /\ IsConsoleLog(Current.node.callee)
  /\ Len(Current.node.arguments) = 1
  /\ Current.node.arguments[1].type = "Identifier"

\* a line after line `line` of the file holds `var <name>`
VarOnLaterLine(name, line, lines) ==
  \E l \in DOMAIN lines : l > line /\ VarMatch(lines[l], name)

\* what the claim has the identifier resolve to, `bound` being its value in
\* the Binding Table
ClaimedIdentifier(name, bound, later) ==
  IF bound # Undef THEN bound
  ELSE IF later THEN Str(<<>>)
  ELSE Str(name)

\* C19: an identifier that has a value in the Binding Table when it is read
\* resolves to that value, also when a later line declares it with `var`; one
\* without a value resolves to the empty string when a later line declares it
\* with `var`, and to its own name otherwise.  (Read by console.log, whose
\* output shows the resolved value.)
BoundIdentifierKeepsValue ==
  [][LogsIdentifier =>
       outputs' = Append(outputs,
                         FormatLogArg(ClaimedIdentifier(
                           Current.node.arguments[1].name,
                           GetKey(variableValues, Current.node.arguments[1].name),
                           VarOnLaterLine(Current.node.arguments[1].name, Current.line,
                                          SourceLines(code)))))]_vars

\* some line from the line numbered `line` on, that line included, holds
\* `var <name>` as a whole word
VarFromLine(name, line, lines) ==
  \E l \in DOMAIN lines : l >= line /\ VarMatch(lines[l], name)

\* C20: isVariableHoistedInCode(name, currentLine, source) is true exactly when
\* some line of the source from the line numbered currentLine (included,
\* counted from 1 as the syntax tree counts) to the last holds `var <name>` as
\* a whole word.  (At the identifier the call visitor is about to resolve for
\* console.log, with the line number it passes.)
HoistedFromCurrentLine ==
  LogsIdentifier =>
    (isVariableHoistedInCode(Current.node.arguments[1].name, Current.line, SourceLines(code))
       <=> VarFromLine(Current.node.arguments[1].name, Current.line, SourceLines(code)))

\* what the claim has `o.name` resolve to, o having resolved to `object`
ClaimedMember(object, name, value) ==
  /\ object.t = "obj" => value = GetKey(object.p, name)
  /\ (TypeOf(object) = "string" /\ name = n_length) => value = Num(Len(object.s))
  /\ (object.t = "arr" /\ name = n_length) => value = Num(Len(object.e))

\* C21: a member access o.p, o resolving to a key-value mapping, resolves to
\* the mapping's value for the key named p, and s.length, s resolving to a
\* string or an ordered sequence, resolves to its length, whatever the Binding
\* Table holds for a variable named p or `length` and whether or not the file
\* declares one with `var`.
MemberReadsNamedKey ==
  (/\ lastCall # NoCall
   /\ lastCall.expr.type = "MemberExpression"
   /\ lastCall.expr.property.type = "Identifier"
   /\ resolveExpression(lastCall.expr.object, lastCall.line, code) # Throw)
    => ClaimedMember(resolveExpression(lastCall.expr.object, lastCall.line, code),
                     lastCall.expr.property.name, lastCall.value)

\* the names a call's callee can be said to have: f for f(...), and p or o.p
\* for o.p(...)
CalleeNames(callee) ==
  IF callee.type = "Identifier" THEN {callee.name}
  ELSE {callee.property.name, callee.object.name \o <<".">> \o callee.property.name}

\* what the claim has a call resolve to, `args` being its resolved arguments
ClaimedCall(callee, args, value) ==
  LET numeric == Len(args) = 2 /\ TypeOf(args[1]) = "number" /\ TypeOf(args[2]) = "number"
      mapping == args # <<>> /\ args[1].t = "obj"
                   /\ CalleeObjectName(callee) = n_Object
                   /\ CalleePropertyName(callee) \in {n_keys, n_values}
  IN  IF callee.type = "Identifier" /\ callee.name = n_add /\ numeric
      THEN value = NumAdd(args[1], args[2])
      ELSE IF callee.type = "Identifier" /\ callee.name = n_multiply /\ numeric
      THEN value = NumMul(args[1], args[2])
      ELSE IF mapping
      THEN value = Arr(IF callee.property.name = n_keys
                       THEN [i \in 1..Len(args[1].p) |-> Str(args[1].p[i].key)]
                       ELSE Vals(args[1].p))
      ELSE value \in {Str(name) : name \in CalleeNames(callee)}

\* C22: a call resolves to a+b for add(a, b) and to a*b for multiply(a, b)
\* with exactly two arguments that resolve to numbers, to the keys or values
\* for Object.keys or Object.values of a mapping, and to the callee's name for
\* every other call, calls through a member expression included.
CallResolvesToNameOrResult ==
  (/\ lastCall # NoCall
   /\ lastCall.expr.type = "CallExpression"
   /\ lastCall.value # Throw)
    => ClaimedCall(lastCall.expr.callee,
                   [i \in 1..Len(lastCall.expr.arguments) |->
                      resolveExpression(lastCall.expr.arguments[i], lastCall.line, code)],
                   lastCall.value)

ComparisonOperators == {"<", "<=", ">", ">=", "==", "!=", "===", "!=="}

\* the test is a binary comparison
IsComparison(test) ==
  test.type = "BinaryExpression" /\ test.operator \in ComparisonOperators

\* the fact's operator is a comparison operator
HasComparisonOperator(condition) == condition.operator \in ComparisonOperators

\* C23: a Condition fact is recorded only for `if` and ternary tests that are
\* binary comparisons: every fact's operator is one of < <= > >= == != === !==,
\* and a test that is a logical expression, an arithmetic expression, a bare
\* identifier, a call or a unary expression records no fact.
ConditionOnlyForComparison ==
  [][/\ \A i \in DOMAIN conditions' : HasComparisonOperator(conditions'[i])
     /\ \A type \in {"IfStatement", "ConditionalExpression"} :
          (Visiting(type) /\ ~IsComparison(Current.node.test)) => conditions' = conditions]_vars

\* C24: within the object group of the structure returned, every object-shape
\* specification (expectedProperties) precedes every Object-method-use
\* specification (expectedMethod), whatever the order of the object literals
\* and the Object.keys/Object.values calls in the file.
ShapesBeforeMethodUses ==
  pc = "returned" =>
    \A i, j \in DOMAIN Result :
      (/\ Result[i].type = "object"
       /\ Result[j].type = "object"
       /\ "expectedProperties" \in DOMAIN Result[i]
       /\ "expectedMethod" \in DOMAIN Result[j]) => i < j

\* the place of a commented-code specification type in the order claimed
CommentedRank(type) ==
  CASE type = "commented_variable" -> 1
    [] type = "commented_output" -> 2
    [] type = "explanation" -> 3
    [] OTHER -> 0

\* C25: within the commented-code group of the structure returned, all
\* commented_variable specifications precede all commented_output
\* specifications, which precede all explanation specifications, whatever the
\* line order of the comments in the file.
CommentedKindsInOrder ==
  pc = "returned" =>
    \A i, j \in DOMAIN Result :
      (i < j /\ CommentedRank(Result[i].type) > 0 /\ CommentedRank(Result[j].type) > 0)
        => CommentedRank(Result[i].type) <= CommentedRank(Result[j].type)

\* the console.log statements of a student's file that are no comments
UncommentedLogs(student) ==
  UNION {IF Line(student[l]).kind = "code"
         THEN {Line(student[l]).stmts[k] :
                 k \in {n \in DOMAIN Line(student[l]).stmts : IsLog(Line(student[l]).stmts[n])}}
         ELSE {} : l \in DOMAIN student}

\* C26: a commented_output specification is lenient only while the console.log
\* is still a comment: once the student's file has an uncommented console.log,
\* the check fails when no uncommented console.log prints the expected text.
CommentedOutputStrictOnceUncommented ==
  (/\ verdict # NoVerdict
   /\ verdict.test.type = "commented_output"
   /\ UncommentedLogs(verdict.student) # {}
   /\ \A log \in UncommentedLogs(verdict.student) :
        ~Includes(Unparse(log), verdict.test.expectedOutput))
    => ~verdict.passed

\* the visit at hand is an assignment o.p = e, o and p identifiers
AssignsProperty ==
  /\ Visiting("AssignmentExpression")
  /\ Current.node.left.type = "MemberExpression"
  /\ Current.node.left.object.type = "Identifier"
  /\ Current.node.left.property.type = "Identifier"

\* what the claim has o.p = e do, o being bound to `bound` (Undef when unbound)
\* and e resolving to newValue
ClaimedPropertyAssignment(left, line, bound, newValue) ==
  IF bound.t = "obj"
  THEN /\ variableValues' = SetKey(variableValues, left.object.name,
                                   Obj(SetKey(bound.p, left.property.name, newValue)))
       /\ variableAssignments' =
            Append(variableAssignments,
                   [type |-> "property_assignment", name |-> left.object.name,
                    property |-> left.property.name, value |-> newValue, line |-> line])
       /\ UNCHANGED facts
  ELSE /\ UNCHANGED <<variableValues, variableAssignments, facts>>
       /\ pc' # "threw"

\* C27: a property assignment o.p = e changes state only when o is bound to a
\* key-value mapping: then o is rebound to the mapping with p mapped to the
\* resolved e and one property_assignment entry is appended to the Assignment
\* Record, the earlier entries staying as they are; when o is unbound or bound
\* to anything else (an ordered sequence, a number, a string, a boolean, null)
\* nothing changes and no error is raised.
PropertyAssignmentOnlyOnMapping ==
  [][(AssignsProperty /\ resolveExpression(Current.node.right, Current.line, code) # Throw)
       => ClaimedPropertyAssignment(Current.node.left, Current.line,
                                    GetKey(variableValues, Current.node.left.object.name),
                                    resolveExpression(Current.node.right, Current.line, code))]_vars

\* the visit at hand is a call a.push(...), a an identifier
CallsPush ==
  /\ Visiting("CallExpression")
  /\ Current.node.callee.type = "MemberExpression"
  /\ Current.node.callee.object.type = "Identifier"
  /\ CalleePropertyName(Current.node.callee) = n_push

\* what the claim has a.push(e1, ..., ek) do, a being bound to `bound` (Undef
\* when unbound) and the arguments resolving to newElements
ClaimedPush(name, line, bound, newElements) ==
  IF bound.t = "arr"
  THEN /\ variableValues' = SetKey(variableValues, name, Arr(bound.e \o newElements))
       /\ variableAssignments' =
            Append(variableAssignments,
                   [type |-> "array_method", name |-> name,
                    value |-> Arr(bound.e \o newElements), method |-> n_push,
                    line |-> line])
       /\ UNCHANGED facts
  ELSE UNCHANGED <<variableValues, variableAssignments, facts>>

\* C28: a call a.push(e1, ..., ek) on an identifier a bound to an ordered
\* sequence rebinds a to the old sequence followed by the resolved e1..ek in
\* order, appends exactly one array_method entry to the Assignment Record, adds
\* no fact and leaves the earlier entries as they are (so that the bound
\* sequence grows by the number of arguments with every push); a push on a
\* receiver not bound to a sequence changes nothing.
PushAppendsResolved ==
  [][CallsPush =>
       ClaimedPush(Current.node.callee.object.name, Current.line,
                   GetKey(variableValues, Current.node.callee.object.name),
                   [i \in 1..Len(Current.node.arguments) |->
                      resolveExpression(Current.node.arguments[i], Current.line, code)])]_vars

\* the visit at hand is a declarator with an initializer
DeclaresWithInit ==
  /\ Visiting("VariableDeclarator")
  /\ ~IsNil(Current.node.init)

\* C29: after the declaration visitor has handled x = <init>, the Binding Table
\* value of x is resolveExpression(<init>) evaluated at that point, whatever
\* the shape of the initializer (an array literal is stored with every element
\* resolved), and also when x was bound before.
DeclarationBindsResolved ==
  [][DeclaresWithInit =>
       GetKey(variableValues', Current.node.id.name)
         = resolveExpression(Current.node.init, Current.line, code)]_vars

\* the visit at hand is a call of console.log
CallsConsoleLog ==
  /\ Visiting("CallExpression")
  /\ IsConsoleLog(Current.node.callee)

\* one resolved argument as the claim has it printed
ClaimedLogArg(resolved) ==
  CASE resolved.t = "arr" ->
         JoinChars([i \in 1..Len(resolved.e) |->
                      IF resolved.e[i].t \in {"null", "undef"} THEN <<>>
                      ELSE ToStr(resolved.e[i])], <<",">>)
    [] resolved.t \in {"obj", "node"} -> s_objectObject
    [] resolved.t \in {"null", "undef"} -> <<>>
    [] OTHER -> ToStr(resolved)

\* the Output fact of the call: the arguments that resolve, joined with spaces
ClaimedLogText(resolvedArgs) ==
  JoinChars([i \in 1..Len(resolvedArgs) |-> ClaimedLogArg(resolvedArgs[i])], <<" ">>)

\* what the claim has a console.log call do, its arguments resolving to
\* resolvedArgs
ClaimedLog(resolvedArgs) ==
  /\ Len(outputs') = Len(outputs) + 1
  /\ SubSeq(outputs', 1, Len(outputs)) = outputs
  /\ ~AnyThrow(resolvedArgs) => outputs'[Len(outputs')] = ClaimedLogText(resolvedArgs)

\* C30: every console.log call of the file, wherever it stands, yields exactly
\* one Output fact, in source order, whose text is the formatting of its
\* resolved arguments joined with spaces: an ordered sequence as its elements
\* joined with commas, a key-value mapping as [object Object], null and
\* undefined as the empty string, any other value as itself.
EveryLogYieldsOutput ==
  [][CallsConsoleLog =>
       ClaimedLog([i \in 1..Len(Current.node.arguments) |->
                     resolveExpression(Current.node.arguments[i], Current.line, code)])]_vars

====
